---- MODULE Spec2Model ----
(***************************************************************************)
(* A model of the h5go wrapper (valoox/h5go): the status-to-error mapping  *)
(* of core, the dataspace / selection wrappers of h5s, the datatype codec  *)
(* and the reflection-driven derivation of h5t.  The HDF5 engine itself is *)
(* the environment: every engine call returns a status the wrapper must    *)
(* handle, and the engine's answer is chosen nondeterministically unless   *)
(* the HDF5 contract fixes it.                                             *)
(***************************************************************************)
EXTENDS Integers, Sequences, FiniteSets, TLC

VARIABLES
    op,      \* name of the operation that ran last ("init" before any)
    inp,     \* the arguments of that operation
    ret,     \* what the operation returned to its caller
    calls,   \* the engine calls the operation made, in order
    space,   \* the dataspace under test: its class and current extent
    sel,     \* the selection attached to the dataspace under test
    nops,    \* how many selection calls that dataspace has seen
    types,   \* the datatypes open in the engine, by handle
    walk,    \* the types the last derivation entered, in order
    enum,    \* the Enum the caller holds: its width in bits and its handle
    limits,  \* core.Limits: the six free-list limits, in bytes
    procs,   \* the goroutines of the shared-file run: where each one stands
    xfer,    \* the handles of the transfers: open datatypes and dataspaces
    plist    \* the dataset creation property list: its chunk dimensions

vars == <<op, inp, ret, calls, space, sel, nops, types, walk, enum, limits, procs, xfer,
          plist>>

\* A Go slice that may be nil: len(nil) = 0, and nil differs from an empty slice
NilSlice == [nil |-> TRUE, v |-> <<>>]

Slice(s) == [nil |-> FALSE, v |-> s]

\* Go's nil error; the other errors are records of kind "status" (core.Status)
\* and "errorf" (fmt.Errorf)
NilErr == [kind |-> "nil"]

Errorf(text) == [kind |-> "errorf", text |-> text]

(***************************************************************************)
(* Strings are sequences of one-character strings, so that formatting is   *)
(* computed and not assumed.  The multi-character chunks "(MISSING)",      *)
(* "(NOVERB)", "(EXTRA ", "(string=" stand for the literal text fmt emits; *)
(* none of them holds a percent sign.                                      *)
(***************************************************************************)

\* ---- bounds of the status model
MaxCtxLen == 2
MaxArgs == 1
MaxCode == 2

CtxChars == {"z", "%", "v"}

RECURSIVE SeqsUpTo(_, _)
SeqsUpTo(S, n) ==
    IF n = 0 THEN {<<>>}
    ELSE LET shorter == SeqsUpTo(S, n - 1)
         IN  shorter \cup {Append(s, x) : s \in {t \in shorter : Len(t) = n - 1}, x \in S}

Contexts == SeqsUpTo(CtxChars, MaxCtxLen)
ArgTexts == {<<"x">>, <<"%", "v">>}
ArgLists == SeqsUpTo(ArgTexts, MaxArgs)
Codes == (0 - MaxCode)..MaxCode

\* fmt.Sprintf's "%!(EXTRA type=value, ...)" tail for the operands left over
RECURSIVE ExtraOperands(_, _)
ExtraOperands(a, n) ==
    IF n > Len(a) THEN <<>>
    ELSE <<"string=">> \o a[n]
         \o (IF n < Len(a) THEN <<", ">> ELSE <<>>)
         \o ExtraOperands(a, n + 1)

\* fmt.Sprintf(f, a...) for string operands: i is the position in the format,
\* n the next operand
RECURSIVE Format(_, _, _, _)
Format(f, i, a, n) ==
    IF i > Len(f)
    THEN IF n <= Len(a)
         THEN <<"%", "!", "(EXTRA ">> \o ExtraOperands(a, n) \o <<")">>
         ELSE <<>>
    ELSE IF f[i] # "%" THEN <<f[i]>> \o Format(f, i + 1, a, n)
    ELSE IF i = Len(f) THEN <<"%", "!", "(NOVERB)">>
    ELSE LET verb == f[i + 1]
         IN  IF verb = "%" THEN <<"%">> \o Format(f, i + 2, a, n)
             ELSE IF n > Len(a)
                  THEN <<"%", "!", verb, "(MISSING)">> \o Format(f, i + 2, a, n)
             ELSE IF verb \in {"v", "s"}
                  THEN a[n] \o Format(f, i + 2, a, n + 1)
             ELSE <<"%", "!", verb, "(string=">> \o a[n] \o <<")">>
                  \o Format(f, i + 2, a, n + 1)

Sprintf(f, a) == Format(f, 1, a, 1)

\* core.Status with the comparison of a plausible slip (0 taken for an error)
StatusZeroIsError(code, context, args) ==
    IF code <= 0
    THEN [kind |-> "status", num |-> code, context |-> Sprintf(context, args)]
    ELSE NilErr

\* core.Status(code, context, args...)
Status(code, context, args) ==
    IF code < 0
    THEN [kind |-> "status", num |-> code, context |-> Sprintf(context, args)]
    ELSE NilErr

\* try(id, context, args...) of h5s, h5t, h5d, h5f, h5l: the context is formatted
\* here and formatted again, without operands, inside Status
try(id, context, args) ==
    [id |-> id, err |-> Status(id, Sprintf(context, args), <<>>)]

\* a context string of the wrappers that holds no percent sign, as one chunk
Ctx(text) == <<text>>

NoCalls == <<>>

\* no dataspace is open
NoSpace == [class |-> "closed", dims |-> <<>>]

\* the selection of a dataspace: "all", "none", a hyperslab selection (a set of
\* coordinates) or a point selection (an ordered list of coordinates)
NoSel == [type |-> "none", set |-> {}, pts |-> <<>>]

\* what an operation hands back: the id, the error, and whether the Go runtime
\* panicked instead of returning
Returned(id, err) == [id |-> id, err |-> err, panic |-> FALSE]

Panicked == [id |-> 0, err |-> NilErr, panic |-> TRUE]

\* the goroutines the shared-file test starts
NumOpeners == 2

Openers == 1..NumOpeners

\* before the test starts: no file, no goroutine
NoProcs ==
    [main |-> "start", fid |-> 0, handles |-> {}, next |-> 1,
     g |-> [i \in Openers |-> [pc |-> "unborn", id |-> 0, raced |-> FALSE]]]

\* a property list as H5Pcreate leaves it: no chunked layout
NoChunk == [chunked |-> FALSE, dims |-> <<>>]

\* before any transfer: nothing open, nothing wrapped
NoXfer == [types |-> {}, spaces |-> {}, wrapped |-> {}, next |-> 1]

\* the sizes for the limits
KB == 1024

MB == KB * KB

\* the current limits, initialised to the default value
Limits ==
    [Reg_global |-> 1 * MB, Reg_list |-> 64 * KB,
     Arr_global |-> 4 * MB, Arr_list |-> 256 * KB,
     Blk_global |-> 16 * MB, Blk_list |-> 1 * MB]

\* the caller holds no Enum: the nil interface value
NoEnum == [width |-> 0, id |-> 0]

Init ==
    /\ op = "init"
    /\ inp = <<>>
    /\ ret = <<>>
    /\ calls = NoCalls
    /\ space = NoSpace
    /\ sel = NoSel
    /\ nops = 0
    /\ types = <<>>
    /\ walk = <<>>
    /\ enum = NoEnum
    /\ limits = Limits
    /\ procs = NoProcs
    /\ xfer = NoXfer
    /\ plist = NoChunk

\* A caller wraps an engine status: Status(code, context, args...)
StatusCall ==
    \E code \in Codes, context \in Contexts, args \in ArgLists :
        /\ op' = "Status"
        /\ inp' = [code |-> code, context |-> context, args |-> args]
        /\ ret' = [err |-> Status(code, context, args)]
        /\ calls' = NoCalls
        /\ UNCHANGED <<space, sel, nops, types, walk, enum, limits, procs, xfer, plist>>

\* A caller wraps an engine id: try(id, context, args...)
TryCall ==
    \E id \in Codes, context \in Contexts, args \in ArgLists :
        /\ op' = "try"
        /\ inp' = [code |-> id, context |-> context, args |-> args]
        /\ ret' = try(id, context, args)
        /\ calls' = NoCalls
        /\ UNCHANGED <<space, sel, nops, types, walk, enum, limits, procs, xfer, plist>>

NextStatus == StatusCall \/ TryCall

SpecStatus == Init /\ [][NextStatus]_vars

\* C1: Status returns an error carrying exactly the code and the formatted
\* context when the code is negative and nil for every code >= 0 (0 included);
\* a context without verbs and without operands is carried verbatim; try returns
\* the id it was given, with a nil error exactly when that id is >= 0.
C1_StatusMapsNegativeCodes ==
    /\ op = "Status" =>
          /\ inp.code < 0 =>
                /\ ret.err.kind = "status"
                /\ ret.err.num = inp.code
                /\ ret.err.context = Sprintf(inp.context, inp.args)
                /\ (inp.args = <<>> /\ \A i \in 1..Len(inp.context) : inp.context[i] # "%")
                      => ret.err.context = inp.context
                /\ (inp.context = <<"%", "v">> /\ Len(inp.args) = 1)
                      => ret.err.context = inp.args[1]
          /\ inp.code >= 0 => ret.err = NilErr
    /\ op = "try" =>
          /\ ret.id = inp.code
          /\ (ret.err = NilErr) <=> (ret.id >= 0)
          /\ ret.id < 0 => ret.err.kind = "status" /\ ret.err.num = ret.id

\* C1 witness: a negative code was mapped, with an operand formatted into the
\* context
C1_Witness ==
    /\ op = "Status"
    /\ inp.code < 0
    /\ inp.context = <<"%", "v">>
    /\ inp.args = <<(<<"x">>)>>
    /\ ret.err.num = inp.code
    /\ ret.err.context = <<"x">>

(***************************************************************************)
(* h5s: dataspaces.  hsize_t is an unsigned 64-bit integer; a value is     *)
(* kept as four 16-bit limbs, most significant first, so that the sentinel *)
(* H5S_UNLIMITED and the masks applied to it keep their width.             *)
(***************************************************************************)

LimbBase == 256 * 256

LimbMax == LimbBase - 1

\* hsize_t(m) for a Go int m with |m| < 2^16: two's complement for m < 0
hsize(m) ==
    IF m >= 0 THEN <<0, 0, 0, m>>
    ELSE <<LimbMax, LimbMax, LimbMax, LimbBase + m>>

\* H5S_UNLIMITED, ((hsize_t)(hssize_t)(-1)): all 64 bits set
H5S_UNLIMITED == <<LimbMax, LimbMax, LimbMax, LimbMax>>

\* the literal 0xffffffff
Mask32 == <<0, 0, LimbMax, LimbMax>>

RECURSIVE BitAnd(_, _)
BitAnd(x, y) ==
    IF x = 0 \/ y = 0 THEN 0
    ELSE (x % 2) * (y % 2) + 2 * BitAnd(x \div 2, y \div 2)

\* a & b on 64-bit values
And64(a, b) == [i \in 1..4 |-> BitAnd(a[i], b[i])]

\* a < b on 64-bit unsigned values
RECURSIVE LessFrom(_, _, _)
LessFrom(a, b, i) ==
    IF i > 4 THEN FALSE
    ELSE IF a[i] # b[i] THEN a[i] < b[i]
    ELSE LessFrom(a, b, i + 1)

Less64(a, b) == LessFrom(a, b, 1)

\* ---- bounds of the dataspace-creation model
MaxRank == 2

ShapeEntries == {1, 3}
MaxsEntries == {-2, -1, 3, 5}
Shapes == SeqsUpTo(ShapeEntries, MaxRank)
Maxs == {NilSlice} \cup {Slice(m) : m \in SeqsUpTo(MaxsEntries, MaxRank)}

\* the id the engine hands out for the dataspace it creates (any id >= 0)
SpaceId == MaxCode + 1

\* the entry of the max-extent buffer CreateSimple builds for maxs[i] = m
MaxEntry(m) ==
    IF m < 0 THEN And64(Mask32, H5S_UNLIMITED) ELSE hsize(m)

\* the rank check of CreateSimple with a plausible slip: only a longer maxs is
\* refused
RankMismatchOnlyLonger(shape, maxs) == Len(maxs.v) > Len(shape)

\* the rank check of CreateSimple: len(maxs) != n
RankMismatch(shape, maxs) == Len(maxs.v) # Len(shape)

\* H5Screate_simple as the HDF5 contract fixes it: the call fails when some
\* maximum is below the current extent; otherwise the engine decides
H5Screate_simple_valid(call) ==
    /\ call.rank >= 1
    /\ IF call.maxdims.nil THEN TRUE
       ELSE \A i \in 1..call.rank : ~Less64(call.maxdims.v[i], call.dims[i])

\* CreateSimple(shape, maxs) up to the engine call: either the value returned
\* without calling the engine, or the call made
CreateSimplePrepare(shape, maxs) ==
    LET n == Len(shape)
        current == [i \in 1..n |-> hsize(shape[i])]
        a == [i \in 1..Len(maxs.v) |-> MaxEntry(maxs.v[i])]
    IN  IF ~maxs.nil /\ RankMismatch(shape, maxs)
        THEN [done |-> TRUE, ret |-> Returned(-1, Errorf("Invalid max length"))]
        ELSE IF ~maxs.nil /\ Len(maxs.v) = 0
        THEN [done |-> TRUE, ret |-> Panicked]      \* &a[0] of an empty slice
        ELSE IF n = 0
        THEN [done |-> TRUE, ret |-> Panicked]      \* &current[0] of an empty slice
        ELSE [done |-> FALSE,
              call |-> [fn |-> "H5Screate_simple", rank |-> n, dims |-> current,
                        maxdims |-> IF maxs.nil THEN NilSlice ELSE Slice(a)]]

\* h5s.CreateSimple(shape, maxs)
CreateSimple ==
    \E shape \in Shapes, maxs \in Maxs :
        LET pre == CreateSimplePrepare(shape, maxs)
        IN  /\ op' = "CreateSimple"
            /\ inp' = [shape |-> shape, maxs |-> maxs]
            /\ IF pre.done
               THEN /\ ret' = pre.ret
                    /\ calls' = NoCalls
                    /\ UNCHANGED <<space, sel, nops, types, walk, enum, limits, procs, xfer, plist>>
               ELSE \E id \in {-1, SpaceId} :
                    /\ id >= 0 => H5Screate_simple_valid(pre.call)
                    /\ LET r == try(id, Ctx("creating simple dataspace"), <<>>)
                       IN  ret' = Returned(r.id, r.err)
                    /\ calls' = <<pre.call>>
                    /\ IF id >= 0
                       THEN /\ space' = [class |-> "simple", dims |-> shape]
                            /\ sel' = [type |-> "all", set |-> {}, pts |-> <<>>]
                            /\ nops' = 0
                            /\ UNCHANGED <<types, walk, enum, limits, procs, xfer, plist>>
                       ELSE UNCHANGED <<space, sel, nops, types, walk, enum, limits, procs, xfer, plist>>

\* h5s.Close(id) on the dataspace under test
CloseSpace ==
    /\ space.class # "closed"
    /\ \E st \in {-1, 0} :
        /\ op' = "Close"
        /\ inp' = [id |-> SpaceId]
        /\ ret' = Returned(0, Status(st, Ctx("closing dataspace"), <<>>))
        /\ calls' = <<[fn |-> "H5Sclose", id |-> SpaceId]>>
        /\ IF st >= 0
           THEN space' = NoSpace /\ sel' = NoSel /\ nops' = 0 /\ UNCHANGED <<types, walk, enum, limits, procs, xfer, plist>>
           ELSE UNCHANGED <<space, sel, nops, types, walk, enum, limits, procs, xfer, plist>>

NextCreate == CreateSimple \/ CloseSpace

SpecCreate == Init /\ [][NextCreate]_vars

\* C4: CreateSimple with a non-nil maxs whose length differs from len(shape)
\* returns -1 and a non-nil error without calling the engine; with maxs nil or
\* of the length of shape it produces no rank-mismatch error.
C4_RankMismatchRefused ==
    op = "CreateSimple" =>
        IF ~inp.maxs.nil /\ Len(inp.maxs.v) # Len(inp.shape)
        THEN /\ ~ret.panic
             /\ ret.id = -1
             /\ ret.err # NilErr
             /\ calls = NoCalls
        ELSE ret.err.kind # "errorf"

\* C4 witness: a maxs shorter than a non-empty shape was refused
C4_Witness ==
    /\ op = "CreateSimple"
    /\ ~inp.maxs.nil
    /\ Len(inp.maxs.v) = 1
    /\ Len(inp.shape) = 2
    /\ ret.id = -1
    /\ ret.err.kind = "errorf"

\* C5: every negative entry of maxs reaches the engine as H5S_UNLIMITED (all 64
\* bits set) and every non-negative entry reaches it unchanged.
C5_NegativeMaxIsUnlimited ==
    (op = "CreateSimple" /\ calls # NoCalls /\ ~inp.maxs.nil) =>
        \A i \in 1..Len(inp.maxs.v) :
            /\ inp.maxs.v[i] < 0 => calls[1].maxdims.v[i] = H5S_UNLIMITED
            /\ inp.maxs.v[i] >= 0 => calls[1].maxdims.v[i] = hsize(inp.maxs.v[i])

(***************************************************************************)
(* Schema codec: Datatype.Encode / h5t.Decode and h5s.Encode / h5s.Decode. *)
(* The byte format belongs to the engine; it is modelled by a prefix code  *)
(* (class byte, then the fields, nested descriptors in line) so that       *)
(* decoding is a computation that can fail and a round trip can be wrong.  *)
(***************************************************************************)

\* type descriptors
TInt(size, signed) == [class |-> "integer", size |-> size, signed |-> signed]

TFloat(size) == [class |-> "float", size |-> size]

TBitfield(size) == [class |-> "bitfield", size |-> size]

\* size 0 stands for H5T_VARIABLE
TString(size, utf8) == [class |-> "string", size |-> size, utf8 |-> utf8]

TVlen(elem) == [class |-> "vlen", elem |-> elem]

TArray(elem, dims) == [class |-> "array", elem |-> elem, dims |-> dims]

TField(name, type, offset) == [name |-> name, type |-> type, offset |-> offset]

TCompound(size, fields) == [class |-> "compound", size |-> size, fields |-> fields]

\* the classes in the order of H5T_class_t (the order of classnames)
ClassNames ==
    <<"integer", "float", "time", "string", "bitfield", "opaque", "compound",
      "reference", "enum", "vlen", "array">>

ClassCode(c) == CHOOSE k \in 0..(Len(ClassNames) - 1) : ClassNames[k + 1] = c

\* the field names the codec knows, a name being stored as its position
FieldNames == <<"re", "im", "data", "constant", "len", "foo", "tag", "tags", "cst", "length">>

NameCode(n) == CHOOSE k \in 1..Len(FieldNames) : FieldNames[k] = n

RECURSIVE EncodeType(_)
RECURSIVE EncodeFields(_, _)
EncodeFields(fs, k) ==
    IF k > Len(fs) THEN <<>>
    ELSE <<NameCode(fs[k].name), fs[k].offset>> \o EncodeType(fs[k].type)
         \o EncodeFields(fs, k + 1)

\* what H5Tencode writes for descriptor d
EncodeType(d) ==
    CASE d.class = "integer" -> <<ClassCode(d.class), d.size, IF d.signed THEN 1 ELSE 0>>
      [] d.class = "float" -> <<ClassCode(d.class), d.size>>
      [] d.class = "bitfield" -> <<ClassCode(d.class), d.size>>
      [] d.class = "string" -> <<ClassCode(d.class), d.size, IF d.utf8 THEN 1 ELSE 0>>
      [] d.class = "vlen" -> <<ClassCode(d.class)>> \o EncodeType(d.elem)
      [] d.class = "array" ->
            <<ClassCode(d.class), Len(d.dims)>> \o d.dims \o EncodeType(d.elem)
      [] d.class = "compound" ->
            <<ClassCode(d.class), d.size, Len(d.fields)>> \o EncodeFields(d.fields, 1)

BadParse == [ok |-> FALSE, next |-> 0, d |-> TFloat(0)]

GoodParse(d, next) == [ok |-> TRUE, next |-> next, d |-> d]

\* what H5Tdecode reads from position i of buffer b: the descriptor and the
\* position after it
RECURSIVE ParseType(_, _)
RECURSIVE ParseFields(_, _, _, _)
ParseFields(b, i, n, acc) ==
    IF n = 0 THEN [ok |-> TRUE, next |-> i, fs |-> acc]
    ELSE IF i + 1 > Len(b) \/ b[i] \notin 1..Len(FieldNames)
    THEN [ok |-> FALSE, next |-> 0, fs |-> <<>>]
    ELSE LET t == ParseType(b, i + 2)
         IN  IF ~t.ok THEN [ok |-> FALSE, next |-> 0, fs |-> <<>>]
             ELSE ParseFields(b, t.next, n - 1,
                              Append(acc, TField(FieldNames[b[i]], t.d, b[i + 1])))

ParseType(b, i) ==
    IF i > Len(b) THEN BadParse
    ELSE LET c == b[i]
         IN  IF c = ClassCode("integer")
             THEN IF i + 2 <= Len(b) /\ b[i + 1] \in {1, 2, 4, 8} /\ b[i + 2] \in {0, 1}
                  THEN GoodParse(TInt(b[i + 1], b[i + 2] = 1), i + 3)
                  ELSE BadParse
             ELSE IF c \in {ClassCode("float"), ClassCode("bitfield")}
             THEN IF i + 1 <= Len(b)
                     /\ b[i + 1] \in (IF c = ClassCode("float") THEN {4, 8} ELSE {1, 2, 4, 8})
                  THEN GoodParse(IF c = ClassCode("float") THEN TFloat(b[i + 1])
                                 ELSE TBitfield(b[i + 1]), i + 2)
                  ELSE BadParse
             ELSE IF c = ClassCode("string")
             THEN IF i + 2 <= Len(b) /\ b[i + 2] \in {0, 1}
                  THEN GoodParse(TString(b[i + 1], b[i + 2] = 1), i + 3)
                  ELSE BadParse
             ELSE IF c = ClassCode("vlen")
             THEN LET e == ParseType(b, i + 1)
                  IN  IF e.ok THEN GoodParse(TVlen(e.d), e.next) ELSE BadParse
             ELSE IF c = ClassCode("array")
             THEN IF i + 1 <= Len(b) /\ b[i + 1] >= 1 /\ i + 1 + b[i + 1] <= Len(b)
                     /\ \A k \in 1..b[i + 1] : b[i + 1 + k] >= 1
                  THEN LET rank == b[i + 1]
                           e == ParseType(b, i + 2 + rank)
                       IN  IF e.ok
                           THEN GoodParse(TArray(e.d, [k \in 1..rank |-> b[i + 1 + k]]),
                                          e.next)
                           ELSE BadParse
                  ELSE BadParse
             ELSE IF c = ClassCode("compound")
             THEN IF i + 2 <= Len(b)
                  THEN LET fs == ParseFields(b, i + 3, b[i + 2], <<>>)
                       IN  IF fs.ok THEN GoodParse(TCompound(b[i + 1], fs.fs), fs.next)
                           ELSE BadParse
                  ELSE BadParse
             ELSE BadParse

\* dataspace values: class and current extent
SpaceClasses == <<"scalar", "simple", "null">>

SpaceClassCode(c) == CHOOSE k \in 0..(Len(SpaceClasses) - 1) : SpaceClasses[k + 1] = c

SpaceVal(class, dims) == [class |-> class, dims |-> dims]

\* what H5Sencode writes for dataspace s
EncodeSpace(s) == <<SpaceClassCode(s.class), Len(s.dims)>> \o s.dims

\* what H5Sdecode reads from buffer b
ParseSpace(b) ==
    IF Len(b) >= 2 /\ b[1] \in 0..(Len(SpaceClasses) - 1) /\ Len(b) >= 2 + b[2]
       /\ (SpaceClasses[b[1] + 1] = "simple") = (b[2] >= 1)
    THEN [ok |-> TRUE, d |-> SpaceVal(SpaceClasses[b[1] + 1], [k \in 1..b[2] |-> b[2 + k]])]
    ELSE [ok |-> FALSE, d |-> SpaceVal("null", <<>>)]

\* ---- bounds of the codec model
MaxBin == 3

ByteVals == {0, 1, 4}

\* the descriptors and dataspaces handed to Encode
CodecTypes ==
    {TInt(1, TRUE), TInt(4, TRUE), TInt(4, FALSE), TInt(8, FALSE), TFloat(4), TFloat(8),
     TString(0, TRUE), TVlen(TInt(1, FALSE)),
     TArray(TInt(4, TRUE), <<2, 2>>), TArray(TFloat(8), <<1, 2>>),
     TArray(TFloat(8), <<2, 1>>),
     TCompound(16, <<TField("re", TFloat(8), 0), TField("im", TFloat(8), 8)>>),
     TCompound(16, <<TField("im", TFloat(8), 8), TField("re", TFloat(8), 0)>>)}

CodecSpaces ==
    {SpaceVal("scalar", <<>>), SpaceVal("null", <<>>), SpaceVal("simple", <<3>>),
     SpaceVal("simple", <<1, 3>>), SpaceVal("simple", <<3, 1>>)}

\* the byte slices handed to Decode: nil, short arbitrary ones, and every encoding
Bins ==
    {NilSlice} \cup {Slice(b) : b \in SeqsUpTo(ByteVals, MaxBin)}
    \cup {Slice(EncodeType(x)) : x \in CodecTypes}
    \cup {Slice(EncodeSpace(s)) : s \in CodecSpaces}

TypeId == SpaceId + 1

Zeros(n) == [k \in 1..n |-> 0]

\* the guard of both Decode functions with a plausible slip (>= for >)
NonEmptyOrEqual(bin) == Len(bin.v) >= 0

\* the guard of both Decode functions: len(bin) > 0
NonEmpty(bin) == Len(bin.v) > 0

\* bin := make([]byte, int(sze)), with a plausible slip (room for one byte more)
MakeBytesOneMore(sze) == Slice(Zeros(sze + 1))

\* bin := make([]byte, int(sze))
MakeBytes(sze) == Slice(Zeros(sze))

\* the two-phase body shared by Datatype.Encode and h5s.Encode: fn is the engine
\* function, enc the bytes it would write, st1 / st2 the engine's two statuses
EncodeBody(fn, id, enc, st1, st2) ==
    LET sze == IF st1 >= 0 THEN Len(enc) ELSE 0
        query == [fn |-> fn, id |-> id, buf |-> NilSlice, size |-> sze, status |-> st1]
        fill == [fn |-> fn, id |-> id, buf |-> MakeBytes(sze), size |-> sze, status |-> st2]
    IN  IF Status(st1, Ctx("computing encoding size"), <<>>) # NilErr
        THEN [ret |-> [bin |-> NilSlice,
                       err |-> Status(st1, Ctx("computing encoding size"), <<>>),
                       panic |-> FALSE],
              calls |-> <<query>>]
        ELSE IF sze = 0
        THEN [ret |-> [bin |-> NilSlice, err |-> NilErr, panic |-> TRUE],  \* &bin[0]
              calls |-> <<query>>]
        ELSE [ret |-> [bin |-> Slice(IF st2 >= 0 THEN enc ELSE Zeros(sze)),
                       err |-> Status(st2, Ctx("encoding"), <<>>), panic |-> FALSE],
              calls |-> <<query, fill>>]

\* Datatype.Encode on a handle that denotes descriptor x
TypeEncode ==
    \E x \in CodecTypes, st1 \in {-1, 0}, st2 \in {-1, 0} :
        LET r == EncodeBody("H5Tencode", TypeId, EncodeType(x), st1, st2)
        IN  /\ op' = "h5t.Encode"
            /\ inp' = [x |-> x]
            /\ ret' = r.ret
            /\ calls' = r.calls
            /\ UNCHANGED <<space, sel, nops, types, walk, enum, limits, procs, xfer, plist>>

\* h5s.Encode on a handle that denotes dataspace s
SpaceEncode ==
    \E s \in CodecSpaces, st1 \in {-1, 0}, st2 \in {-1, 0} :
        LET r == EncodeBody("H5Sencode", SpaceId, EncodeSpace(s), st1, st2)
        IN  /\ op' = "h5s.Encode"
            /\ inp' = [x |-> s]
            /\ ret' = r.ret
            /\ calls' = r.calls
            /\ UNCHANGED <<space, sel, nops, types, walk, enum, limits, procs, xfer, plist>>

\* h5t.Decode(bin): the engine's answer is computed and handed to try, whose
\* result is dropped; the function then falls through to its last return
TypeDecode ==
    \E bin \in Bins, id \in {-1, TypeId} :
        LET p == ParseType(bin.v, 1)
        IN  /\ op' = "h5t.Decode"
            /\ inp' = [bin |-> bin]
            /\ IF NonEmpty(bin)
               THEN /\ id >= 0 => p.ok
                    /\ calls' = <<[fn |-> "H5Tdecode", buf |-> bin, result |-> id,
                                   d |-> p.d]>>
               ELSE /\ id = -1
                    /\ calls' = NoCalls
            /\ ret' = Returned(-1, Errorf("Empty array"))
            /\ UNCHANGED <<space, sel, nops, types, walk, enum, limits, procs, xfer, plist>>

\* h5s.Decode(bin)
SpaceDecode ==
    \E bin \in Bins, id \in {-1, SpaceId} :
        LET p == ParseSpace(bin.v)
        IN  /\ op' = "h5s.Decode"
            /\ inp' = [bin |-> bin]
            /\ IF NonEmpty(bin)
               THEN /\ id >= 0 => p.ok
                    /\ calls' = <<[fn |-> "H5Sdecode", buf |-> bin, result |-> id,
                                   d |-> p.d]>>
                    /\ LET r == try(id, Ctx("decoding dataspace"), <<>>)
                       IN  ret' = Returned(r.id, r.err)
               ELSE /\ id = -1
                    /\ calls' = NoCalls
                    /\ ret' = Returned(-1, Errorf("Empty array"))
            /\ UNCHANGED <<space, sel, nops, types, walk, enum, limits, procs, xfer, plist>>

NextCodec == TypeEncode \/ SpaceEncode \/ TypeDecode \/ SpaceDecode

SpecCodec == Init /\ [][NextCodec]_vars

\* C2: whenever the engine decodes the bytes of a descriptor x successfully,
\* h5t.Decode returns a nil error and the decoded handle, which denotes x.
C2_TypeRoundTrip ==
    (op = "h5t.Decode" /\ calls # NoCalls /\ calls[1].result >= 0) =>
        /\ ret.err = NilErr
        /\ ret.id = calls[1].result
        /\ \A x \in CodecTypes : inp.bin.v = EncodeType(x) => calls[1].d = x

\* C3: Decode of a zero-length byte slice (h5t and h5s) returns a non-nil error
\* and -1 and calls no engine codec.
C3_EmptyDecodeRefused ==
    (op \in {"h5t.Decode", "h5s.Decode"} /\ Len(inp.bin.v) = 0) =>
        /\ ~ret.panic
        /\ ret.err # NilErr
        /\ ret.id = -1
        /\ calls = NoCalls

\* C3 witness: both Decode functions have refused an empty slice (here h5s, on
\* an empty non-nil slice)
C3_Witness ==
    /\ op = "h5s.Decode"
    /\ inp.bin = Slice(<<>>)
    /\ ret.id = -1
    /\ ret.err.kind = "errorf"

(***************************************************************************)
(* h5s: selections.  The engine keeps, for the dataspace under test, either*)
(* "all", "none", a hyperslab selection (a set of coordinates) or a point  *)
(* selection (an ordered list).  H5Sselect_hyperslab and                   *)
(* H5Sselect_elements follow the HDF5 contract: the operator is applied to *)
(* the current selection A and the region B as the comments of OP state.   *)
(***************************************************************************)

\* ---- bounds of the selection model
Extent == 5
MaxSelOps == 2
MaxPoints == 1

\* the selection operators (type OP)
HyperslabOps == {"SET", "AND", "OR", "XOR", "NOTA", "NOTB"}
PointOps == {"SET", "APPEND", "PREPEND"}
AllOps == HyperslabOps \cup PointOps

\* the operator each named Hyperslab method hands to Ref
SetOp == "SET"

UnionOp == "OR"

\* XUnion with a plausible slip (the operator of Union)
XUnionOpAsUnion == "OR"

XUnionOp == "XOR"

InterOp == "AND"

NegOp == "OR"

ExclOp == "OR"

\* the operator each method is documented to apply
DocumentedOp(method) ==
    CASE method = "Hyperslab.Set" -> "SET"
      [] method = "Hyperslab.Union" -> "OR"
      [] method = "Hyperslab.XUnion" -> "XOR"
      [] method = "Hyperslab.Inter" -> "AND"
      [] method = "Hyperslab.Neg" -> "NOTA"
      [] method = "Hyperslab.Excl" -> "NOTB"

\* the arguments handed to the hyperslab methods (rank 2): start, count and
\* the (stride, block) pairs, among them the omitted ones and a missing start
Starts == {Slice(<<0, 0>>), Slice(<<1, 1>>)}
Counts == {Slice(<<1, 1>>), Slice(<<2, 2>>)}
StrideBlocks ==
    {<<NilSlice, NilSlice>>, <<Slice(<<1, 1>>), Slice(<<1, 1>>)>>,
     <<Slice(<<2, 2>>), Slice(<<2, 1>>)>>}
HyperslabArgs ==
    {<<s, sb[1], c, sb[2]>> : s \in Starts, c \in Counts, sb \in StrideBlocks}
    \cup {<<NilSlice, NilSlice, Slice(<<1, 1>>), NilSlice>>}

\* the operators handed to Hyperslab.Ref directly: the ones no method reaches
RefOps == {"NOTA", "NOTB", "APPEND"}

\* the coordinates handed to the point methods
PointVals == {<<1, 2>>, <<4, 4>>}
CoordLists == {NilSlice} \cup {Slice(c) : c \in SeqsUpTo(PointVals, MaxPoints)}

\* what Points.Ref is handed directly: every operator with no coordinates, and
\* some operators with coordinates
PointsRefInputs ==
    (AllOps \X {NilSlice, Slice(<<>>)}) \cup ({"SET", "PREPEND", "XOR"} \X CoordLists)

\* ccoords(args): a nil pointer for a nil or empty slice, else the values
ccoords(args) == IF args.nil \/ Len(args.v) = 0 THEN NilSlice ELSE Slice(args.v)

\* every coordinate of a dataspace of extent dims
Grid(dims) ==
    {c \in [1..Len(dims) -> 0..Extent] : \A d \in 1..Len(dims) : c[d] < dims[d]}

Ones(rank) == [d \in 1..rank |-> 1]

\* a NULL stride or block means 1 in every dimension
OrOnes(p, rank) == IF p.nil THEN Ones(rank) ELSE p.v

\* the coordinates of the hyperslab (start, stride, count, block)
Region(rank, start, stride, count, block) ==
    LET st == OrOnes(stride, rank)
        bl == OrOnes(block, rank)
        top == [d \in 1..rank |-> start.v[d] + (count.v[d] - 1) * st[d] + bl[d] - 1]
    IN  {c \in [1..rank -> 0..Extent] :
            \A d \in 1..rank :
                /\ c[d] >= start.v[d]
                /\ c[d] <= top[d]
                /\ ((c[d] - start.v[d]) % st[d]) < bl[d]}

\* the arguments H5Sselect_hyperslab accepts
HyperslabArgsValid(dims, o, start, stride, count, block) ==
    LET rank == Len(dims)
        st == OrOnes(stride, rank)
        bl == OrOnes(block, rank)
    IN  /\ o \in HyperslabOps
        /\ ~start.nil /\ ~count.nil
        /\ Len(start.v) = rank /\ Len(count.v) = rank
        /\ Len(st) = rank /\ Len(bl) = rank
        /\ \A d \in 1..rank :
              /\ st[d] >= 1 /\ bl[d] >= 1 /\ count.v[d] >= 1
              /\ count.v[d] > 1 => st[d] >= bl[d]
              /\ start.v[d] + (count.v[d] - 1) * st[d] + bl[d] - 1 < dims[d]

SeqRange(s) == {s[k] : k \in 1..Len(s)}

\* the coordinates a selection selects
SelSet(s, dims) ==
    CASE s.type = "all" -> Grid(dims)
      [] s.type = "none" -> {}
      [] s.type = "hyperslab" -> s.set
      [] s.type = "points" -> SeqRange(s.pts)

AllSel == [type |-> "all", set |-> {}, pts |-> <<>>]

HyperSel(set) == [type |-> "hyperslab", set |-> set, pts |-> <<>>]

PointSel(pts) == [type |-> "points", set |-> {}, pts |-> pts]

\* operator o applied to the current selection A and the region B
Combine(o, A, B) ==
    CASE o = "SET" -> B
      [] o = "OR" -> A \cup B
      [] o = "AND" -> A \cap B
      [] o = "XOR" -> (A \ B) \cup (B \ A)
      [] o = "NOTA" -> B \ A
      [] o = "NOTB" -> A \ B

\* can H5Sselect_hyperslab succeed on the current selection with these arguments
HyperslabAccepts(cur, dims, o, start, stride, count, block) ==
    /\ HyperslabArgsValid(dims, o, start, stride, count, block)
    /\ cur.type = "points" => o = "SET"

\* the selection H5Sselect_hyperslab leaves when it succeeds
HyperslabResult(cur, dims, o, start, stride, count, block) ==
    HyperSel(Combine(o, SelSet(cur, dims),
                     Region(Len(dims), start, stride, count, block)))

\* Hyperslab.Ref(selector, start, stride, count, block), under the method name
\* it was reached by
HyperslabRef(method, o, start, stride, count, block) ==
    /\ space.class = "simple"
    /\ nops < MaxSelOps
    /\ \E st \in {-1, 0} :
        /\ st >= 0 => HyperslabAccepts(sel, space.dims, o, start, stride, count, block)
        /\ op' = method
        /\ inp' = [selector |-> o, start |-> start, stride |-> stride, count |-> count,
                   block |-> block, before |-> sel]
        /\ ret' = Returned(0, Status(st, Ctx("selecting hyperslab"), <<>>))
        /\ calls' = <<[fn |-> "H5Sselect_hyperslab", selector |-> o,
                       start |-> ccoords(start), stride |-> ccoords(stride),
                       count |-> ccoords(count), block |-> ccoords(block)]>>
        /\ sel' = IF st >= 0
                  THEN HyperslabResult(sel, space.dims, o, start, stride, count, block)
                  ELSE sel
        /\ nops' = nops + 1
        /\ UNCHANGED <<space, types, walk, enum, limits, procs, xfer, plist>>

Hyperslab_Ref ==
    \E o \in RefOps, a \in HyperslabArgs :
        HyperslabRef("Hyperslab.Ref", o, a[1], a[2], a[3], a[4])

Hyperslab_Set ==
    \E a \in HyperslabArgs : HyperslabRef("Hyperslab.Set", SetOp, a[1], a[2], a[3], a[4])

Hyperslab_Union ==
    \E a \in HyperslabArgs : HyperslabRef("Hyperslab.Union", UnionOp, a[1], a[2], a[3], a[4])

Hyperslab_XUnion ==
    \E a \in HyperslabArgs : HyperslabRef("Hyperslab.XUnion", XUnionOp, a[1], a[2], a[3], a[4])

Hyperslab_Inter ==
    \E a \in HyperslabArgs : HyperslabRef("Hyperslab.Inter", InterOp, a[1], a[2], a[3], a[4])

Hyperslab_Neg ==
    \E a \in HyperslabArgs : HyperslabRef("Hyperslab.Neg", NegOp, a[1], a[2], a[3], a[4])

Hyperslab_Excl ==
    \E a \in HyperslabArgs : HyperslabRef("Hyperslab.Excl", ExclOp, a[1], a[2], a[3], a[4])

\* the early return of Points.Ref with a plausible slip (only nil is empty)
NoCoordsOnlyNil(coords) == coords.nil

\* the early return of Points.Ref: len(coords) == 0
NoCoords(coords) == Len(coords.v) = 0

\* the flat buffer Points.Ref fills: len(coords)*len(coords[0]) entries, written
\* in order; writing past the end panics
RECURSIVE Flatten(_, _)
Flatten(pts, k) == IF k > Len(pts) THEN <<>> ELSE pts[k] \o Flatten(pts, k + 1)

FlatCoords(pts) ==
    IF Len(pts) = 0 THEN [panic |-> TRUE, buf |-> <<>>]       \* coords[0]
    ELSE LET size == Len(pts) * Len(pts[1])
             flat == Flatten(pts, 1)
         IN  IF Len(flat) > size \/ size = 0 THEN [panic |-> TRUE, buf |-> <<>>]  \* c[k], &c[0]
             ELSE [panic |-> FALSE,
                   buf |-> [k \in 1..size |-> IF k <= Len(flat) THEN flat[k] ELSE 0]]

\* the n points of the given rank the engine reads from the flat buffer
PointsOf(buf, n, rank) ==
    [k \in 1..n |-> [d \in 1..rank |-> buf[(k - 1) * rank + d]]]

\* can H5Sselect_elements succeed: it reads n points of the dataspace's rank
\* from the buffer, whatever the length the caller filled
ElementsAccepts(dims, o, n, buf) ==
    /\ o \in PointOps
    /\ n >= 1
    /\ Len(buf) >= n * Len(dims)
    /\ \A k \in 1..(n * Len(dims)) : buf[k] < dims[((k - 1) % Len(dims)) + 1]

\* what the engine finds past the end of a buffer that is m entries short
PastTheEnd(m) == IF m <= 0 THEN {<<>>} ELSE [1..m -> 0..(Extent - 1)]

\* the selection H5Sselect_elements leaves when it succeeds
ElementsResult(cur, dims, o, n, buf) ==
    LET new == PointsOf(buf, n, Len(dims))
    IN  IF o = "SET" \/ cur.type # "points" THEN PointSel(new)
        ELSE IF o = "APPEND" THEN PointSel(cur.pts \o new)
        ELSE PointSel(new \o cur.pts)

\* Points.Ref(op, coords), under the method name it was reached by
PointsRef(method, o, coords) ==
    /\ space.class = "simple"
    /\ nops < MaxSelOps
    /\ op' = method
    /\ inp' = [selector |-> o, coords |-> coords, before |-> sel]
    /\ nops' = nops + 1
    /\ UNCHANGED <<space, types, walk, enum, limits, procs, xfer, plist>>
    /\ IF NoCoords(coords)
       THEN /\ ret' = Returned(0, NilErr)
            /\ calls' = NoCalls
            /\ UNCHANGED sel
       ELSE LET c == FlatCoords(coords.v)
            IN  IF c.panic
                THEN /\ ret' = Panicked
                     /\ calls' = NoCalls
                     /\ UNCHANGED sel
                ELSE \E st \in {-1, 0}, crash \in BOOLEAN,
                        past \in PastTheEnd(Len(coords.v) * Len(space.dims) - Len(c.buf)) :
                     LET seen == c.buf \o past
                     IN  /\ crash => Len(past) > 0
                         /\ st >= 0 => ElementsAccepts(space.dims, o, Len(coords.v), seen)
                         /\ ret' = IF crash THEN Panicked
                                   ELSE Returned(0, Status(st, Ctx("selecting point"), <<>>))
                         /\ calls' = <<[fn |-> "H5Sselect_elements", selector |-> o,
                                        n |-> Len(coords.v), buf |-> c.buf]>>
                         /\ sel' = IF st >= 0 /\ ~crash
                                   THEN ElementsResult(sel, space.dims, o, Len(coords.v), seen)
                                   ELSE sel

Points_Ref == \E a \in PointsRefInputs : PointsRef("Points.Ref", a[1], a[2])

Points_Set == \E coords \in CoordLists : PointsRef("Points.Set", "SET", coords)

Points_Append == \E coords \in CoordLists : PointsRef("Points.Append", "APPEND", coords)

Points_Prepend == \E coords \in CoordLists : PointsRef("Points.Prepend", "PREPEND", coords)

\* h5s.CreateSimple([Extent, Extent], nil): the dataspace the selections attach to
CreateGrid ==
    /\ space.class = "closed"
    /\ LET shape == <<Extent, Extent>>
           pre == CreateSimplePrepare(shape, NilSlice)
       IN  \E id \in {-1, SpaceId} :
            /\ id >= 0 => H5Screate_simple_valid(pre.call)
            /\ op' = "CreateSimple"
            /\ inp' = [shape |-> shape, maxs |-> NilSlice]
            /\ LET r == try(id, Ctx("creating simple dataspace"), <<>>)
               IN  ret' = Returned(r.id, r.err)
            /\ calls' = <<pre.call>>
            /\ nops' = 0
            /\ UNCHANGED <<types, walk, enum, limits, procs, xfer, plist>>
            /\ IF id >= 0
               THEN /\ space' = [class |-> "simple", dims |-> shape]
                    /\ sel' = AllSel
               ELSE UNCHANGED <<space, sel>>

NextSelect ==
    \/ CreateGrid
    \/ Hyperslab_Ref
    \/ Hyperslab_Set
    \/ Hyperslab_Union
    \/ Hyperslab_XUnion
    \/ Hyperslab_Inter
    \/ Hyperslab_Neg
    \/ Hyperslab_Excl
    \/ Points_Ref
    \/ Points_Set
    \/ Points_Append
    \/ Points_Prepend

SpecSelect == Init /\ [][NextSelect]_vars

\* ---- claims about selections

PointMethods == {"Points.Ref", "Points.Set", "Points.Append", "Points.Prepend"}

\* C6: a point method called with zero coordinates (nil or empty), whatever the
\* operator, returns nil without panicking, makes no engine call and leaves the
\* selection of the dataspace as it was
C6_ZeroCoordsIsNoOp ==
    (op \in PointMethods /\ Len(inp.coords.v) = 0) =>
        /\ ~ret.panic
        /\ ret.err = NilErr
        /\ calls = NoCalls
        /\ sel = inp.before

\* Points.Ref(NOTB, [][]uint{}) on a dataspace that has a hyperslab selected
C6_Witness ==
    /\ op = "Points.Ref"
    /\ inp.selector = "NOTB"
    /\ inp.coords = Slice(<<>>)
    /\ inp.before.type = "hyperslab"
    /\ inp.before.set # {}
    /\ sel = inp.before
    /\ ret.err = NilErr

HyperslabMethods ==
    {"Hyperslab.Set", "Hyperslab.Union", "Hyperslab.XUnion", "Hyperslab.Inter",
     "Hyperslab.Neg", "Hyperslab.Excl"}

\* C7: after a named Hyperslab method succeeds, the engine was handed the
\* operator the method is documented to apply, and the selected index set is
\* that operator's set-algebra result on the selection before the call (A) and
\* the region of the arguments (B): SET B, OR A+B, XOR symmetric difference,
\* AND intersection, NOTA B minus A, NOTB A minus B
C7_MethodsApplyDocumentedOperator ==
    (op \in HyperslabMethods /\ ret.err = NilErr) =>
        /\ calls[1].selector = DocumentedOp(op)
        /\ SelSet(sel, space.dims) =
               Combine(DocumentedOp(op), SelSet(inp.before, space.dims),
                       Region(Len(space.dims), inp.start, inp.stride, inp.count, inp.block))

\* the four coordinates of the hyperslab start [1,1], count [2,2] of unit blocks
Square == {<<1, 1>>, <<1, 2>>, <<2, 1>>, <<2, 2>>}

IsOnesOrNil(p) == p.nil \/ p.v = <<1, 1>>

\* the number of coordinates count*block describes, over all dimensions
RECURSIVE Volume(_, _, _)
Volume(count, block, d) ==
    IF d > Len(count) THEN 1 ELSE count[d] * block[d] * Volume(count, block, d + 1)

\* C8: a successful Hyperslab.Set selects exactly the hyperslab of its
\* arguments: count*block coordinates in every dimension, all inside the
\* region, and with start [1,1], count [2,2] and stride and block either
\* omitted or all ones the four coordinates (1,1),(1,2),(2,1),(2,2); a
\* successful Hyperslab.XUnion with the region that is currently selected
\* leaves nothing selected
C8_SetSelectsRegionXUnionEmpties ==
    /\ (op = "Hyperslab.Set" /\ ret.err = NilErr) =>
        /\ Cardinality(SelSet(sel, space.dims)) =
               Volume(inp.count.v, OrOnes(inp.block, Len(inp.count.v)), 1)
        /\ \A c \in SelSet(sel, space.dims) : \A d \in 1..Len(space.dims) :
               c[d] >= inp.start.v[d] /\ c[d] < space.dims[d]
        /\ (/\ inp.start.v = <<1, 1>> /\ inp.count.v = <<2, 2>>
            /\ IsOnesOrNil(inp.stride) /\ IsOnesOrNil(inp.block))
               => SelSet(sel, space.dims) = Square
    /\ (/\ op = "Hyperslab.XUnion" /\ ret.err = NilErr
        /\ inp.before.type = "hyperslab"
        /\ inp.before.set = Region(Len(space.dims), inp.start, inp.stride,
                                   inp.count, inp.block))
           => SelSet(sel, space.dims) = {}

\* XUnion of start [1,1], count [2,2] with stride and block omitted, on the
\* dataspace in which exactly those four coordinates were selected
C8_Witness ==
    /\ op = "Hyperslab.XUnion"
    /\ ret.err = NilErr
    /\ inp.start = Slice(<<1, 1>>) /\ inp.count = Slice(<<2, 2>>)
    /\ inp.stride = NilSlice /\ inp.block = NilSlice
    /\ inp.before = HyperSel(Square)
    /\ sel = HyperSel({})
    /\ calls[1].stride = NilSlice

(***************************************************************************)
(* h5t: deriving a datatype from a Go type (Parse).  A Go type is what     *)
(* reflect shows of it: its kind, its element type, its length, its fields *)
(* with their names and tags.  One derivation threads a run record E       *)
(* through every function: the engine calls made so far (log), the         *)
(* engine's table of open datatypes (tab), the number of handles handed    *)
(* out (n), the number of engine calls that may fail made so far (k), the  *)
(* one of them that does fail (fail, 0 for none) and the types parse was   *)
(* entered with (walk).  A declared type that may refer to itself is named *)
(* (kind "named"), reflect showing under the name the declared struct;    *)
(* the run keeps the declared types parse is inside of (active), and a     *)
(* derivation that has unfolded one declared type inside itself MaxUnfold  *)
(* times is cut there as a recursion without end.                          *)
(***************************************************************************)

\* ---- bounds of the derivation model
MaxFields == 2
MaxFail == 6
MaxUnfold == 1

\* reflect.Type values
Atom(k) == [kind |-> k]

PtrTo(t) == [kind |-> "ptr", elem |-> t]

SliceOf(t) == [kind |-> "slice", elem |-> t]

ArrayOf(n, t) == [kind |-> "array", len |-> n, elem |-> t]

\* reflect.StructField: Name, Tag.Get("hdf"), Tag.Get("hdftype") ("" when the
\* tag is absent) and Type
StructField(name, hdf, hdftype, t) ==
    [name |-> name, hdf |-> hdf, hdftype |-> hdftype, type |-> t]

StructOf(fs) == [kind |-> "struct", fields |-> fs]

\* the kinds atomic() knows, and the ones it does not
AtomicKinds ==
    {"int8", "int16", "int32", "int64", "uint8", "uint16", "uint32", "uint64",
     "float32", "float64", "complex64", "complex128", "bool", "string"}

WordKinds == {"int", "uint", "uintptr", "unsafe.Pointer", "map", "chan", "func", "ptr"}

RoundUp(n, a) == ((n + a - 1) \div a) * a

SeqMax(s) == IF Len(s) = 0 THEN 1 ELSE CHOOSE m \in {s[i] : i \in 1..Len(s)} :
                                            \A i \in 1..Len(s) : s[i] <= m

\* reflect's Align, Size and StructField.Offset (gc, 64-bit)
RECURSIVE Alignof(_)
Alignof(T) ==
    CASE T.kind \in {"int8", "uint8", "bool"} -> 1
      [] T.kind \in {"int16", "uint16"} -> 2
      [] T.kind \in {"int32", "uint32", "float32", "complex64"} -> 4
      [] T.kind = "array" -> Alignof(T.elem)
      [] T.kind = "struct" -> SeqMax([i \in 1..Len(T.fields) |-> Alignof(T.fields[i].type)])
      [] OTHER -> 8

RECURSIVE Sizeof(_)
RECURSIVE FieldOffset(_, _)
FieldOffset(v, i) ==
    RoundUp(IF i = 1 THEN 0
            ELSE FieldOffset(v, i - 1) + Sizeof(v.fields[i - 1].type),
            Alignof(v.fields[i].type))

Sizeof(T) ==
    CASE T.kind \in {"int8", "uint8", "bool"} -> 1
      [] T.kind \in {"int16", "uint16"} -> 2
      [] T.kind \in {"int32", "uint32", "float32"} -> 4
      [] T.kind \in {"int64", "uint64", "float64", "complex64"} \cup WordKinds -> 8
      [] T.kind \in {"complex128", "string", "interface"} -> 16
      [] T.kind = "slice" -> 24
      [] T.kind = "array" -> T.len * Sizeof(T.elem)
      [] T.kind = "struct" ->
            IF Len(T.fields) = 0 THEN 0
            ELSE RoundUp(FieldOffset(T, Len(T.fields))
                         + Sizeof(T.fields[Len(T.fields)].type), Alignof(T))
      [] OTHER -> 0

\* ---- the engine's datatypes

\* H5T_VARIABLE, as the size of a descriptor
H5T_VARIABLE == 0

\* the predefined types C.init() stores
BaseDesc(name) ==
    CASE name = "NCHAR" -> TInt(1, TRUE)
      [] name = "NUCHAR" -> TInt(1, FALSE)
      [] name = "NSHORT" -> TInt(2, TRUE)
      [] name = "NUSHORT" -> TInt(2, FALSE)
      [] name = "NINT" -> TInt(4, TRUE)
      [] name = "NUINT" -> TInt(4, FALSE)
      [] name = "NLONG" -> TInt(8, TRUE)
      [] name = "NULONG" -> TInt(8, FALSE)
      [] name = "N8" -> TBitfield(1)
      [] name = "N16" -> TBitfield(2)
      [] name = "N32" -> TBitfield(4)
      [] name = "N64" -> TBitfield(8)
      [] name = "NBOOL" -> TInt(1, FALSE)
      [] name = "NFLOAT" -> TFloat(4)
      [] name = "NDOUBLE" -> TFloat(8)
      [] name = "VSTRING" -> TString(1, FALSE)

\* the named datatypes committed to the file: the test commits Int32 as "int32"
CommittedNames == {"int32"}

CommittedDesc(name) == TInt(4, TRUE)

RECURSIVE Product(_, _)
Product(s, i) == IF i > Len(s) THEN 1 ELSE s[i] * Product(s, i + 1)

\* the bytes an element of descriptor d takes in memory
RECURSIVE DescSize(_)
DescSize(d) ==
    CASE d.class = "string" -> IF d.size = H5T_VARIABLE THEN 8 ELSE d.size
      [] d.class = "vlen" -> 16
      [] d.class = "array" -> Product(d.dims, 1) * DescSize(d.elem)
      [] OTHER -> d.size

\* the run record at the start of a derivation
NewRun(fail) ==
    [log |-> <<>>, tab |-> <<>>, n |-> 0, k |-> 0, fail |-> fail, walk |-> <<>>,
     active |-> <<>>]

\* the largest handle of a table of open datatypes
MaxHandle(tab) ==
    IF DOMAIN tab = {} THEN 0
    ELSE CHOOSE h \in DOMAIN tab : \A g \in DOMAIN tab : g <= h

\* the engine as an operation finds it: the open datatypes are those of `types`
RunOn(tab, fail) ==
    [log |-> <<>>, tab |-> tab, n |-> MaxHandle(tab), k |-> 0, fail |-> fail, walk |-> <<>>,
     active |-> <<>>]

\* is the engine call about to be made the one that fails
Fails(E) == E.k + 1 = E.fail

\* an engine call that hands out a new datatype of descriptor d, or -1
EngineNew(E, call, valid, d) ==
    LET ok == valid /\ ~Fails(E)
        id == IF ok THEN E.n + 1 ELSE -1
    IN  [E |-> [E EXCEPT !.k = @ + 1,
                         !.n = IF ok THEN @ + 1 ELSE @,
                         !.log = Append(@, call @@ [result |-> id]),
                         !.tab = IF ok THEN (id :> d) @@ @ ELSE @],
         id |-> id]

\* an engine call that changes the open datatype h into d, or fails
EngineSet(E, call, h, valid, d) ==
    LET ok == valid /\ ~Fails(E)
        st == IF ok THEN 0 ELSE -1
    IN  [E |-> [E EXCEPT !.k = @ + 1,
                         !.log = Append(@, call @@ [result |-> st]),
                         !.tab = IF ok THEN [@ EXCEPT ![h] = d] ELSE @],
         st |-> st]

IsOpen(E, h) == h \in DOMAIN E.tab

H5Tcopy(E, name) == EngineNew(E, [fn |-> "H5Tcopy", of |-> name], TRUE, BaseDesc(name))

H5Tset_size(E, h, bytes) ==
    EngineSet(E, [fn |-> "H5Tset_size", id |-> h, size |-> bytes], h,
              IsOpen(E, h) /\ (bytes > 0 \/ (bytes = H5T_VARIABLE /\ E.tab[h].class = "string")),
              [E.tab[h] EXCEPT !.size = bytes])

H5Tset_sign(E, h, signed) ==
    EngineSet(E, [fn |-> "H5Tset_sign", id |-> h, signed |-> signed], h,
              IsOpen(E, h) /\ E.tab[h].class = "integer",
              [E.tab[h] EXCEPT !.signed = signed])

H5Tset_cset(E, h, utf8) ==
    EngineSet(E, [fn |-> "H5Tset_cset", id |-> h, utf8 |-> utf8], h,
              IsOpen(E, h) /\ E.tab[h].class = "string",
              [E.tab[h] EXCEPT !.utf8 = utf8])

H5Tcreate(E, class, bytes) ==
    EngineNew(E, [fn |-> "H5Tcreate", class |-> class, size |-> bytes],
              bytes > 0, TCompound(bytes, <<>>))

\* a member may be inserted when it fits in the compound without overlapping
\* a member already there: an engine that takes a name twice
InsertFitsAnyName(d, name, offset, m) ==
    /\ d.class = "compound"
    /\ offset + DescSize(m) <= d.size
    /\ \A i \in 1..Len(d.fields) :
          \/ offset >= d.fields[i].offset + DescSize(d.fields[i].type)
          \/ offset + DescSize(m) <= d.fields[i].offset

\* a member may be inserted when its name is new and it fits in the compound
\* without overlapping a member already there
InsertFits(d, name, offset, m) ==
    /\ d.class = "compound"
    /\ offset + DescSize(m) <= d.size
    /\ \A i \in 1..Len(d.fields) :
          /\ d.fields[i].name # name
          /\ \/ offset >= d.fields[i].offset + DescSize(d.fields[i].type)
             \/ offset + DescSize(m) <= d.fields[i].offset

H5Tinsert(E, h, name, offset, member) ==
    EngineSet(E, [fn |-> "H5Tinsert", id |-> h, name |-> name, offset |-> offset,
                  member |-> member,
                  bytes |-> IF IsOpen(E, member) THEN DescSize(E.tab[member]) ELSE 0], h,
              IsOpen(E, h) /\ IsOpen(E, member)
                  /\ InsertFits(E.tab[h], name, offset, E.tab[member]),
              [E.tab[h] EXCEPT !.fields = Append(@, TField(name, E.tab[member], offset))])

H5Tarray_create2(E, base, dims) ==
    EngineNew(E, [fn |-> "H5Tarray_create2", base |-> base, rank |-> Len(dims),
                  dims |-> dims],
              IsOpen(E, base) /\ \A i \in 1..Len(dims) : dims[i] > 0,
              TArray(E.tab[base], dims))

H5Tvlen_create(E, base) ==
    EngineNew(E, [fn |-> "H5Tvlen_create", base |-> base], IsOpen(E, base),
              TVlen(E.tab[base]))

H5Topen(E, name) ==
    EngineNew(E, [fn |-> "H5Topen", name |-> name], name \in CommittedNames,
              CommittedDesc(name))

\* H5Tclose releases an open datatype; it fails on anything else, and when
\* the engine fails it: the datatype then stays open
H5Tclose(E, h) ==
    LET ok == IsOpen(E, h) /\ ~Fails(E)
        st == IF ok THEN 0 ELSE -1
    IN  [E |-> [E EXCEPT !.k = @ + 1,
                         !.log = Append(@, [fn |-> "H5Tclose", id |-> h, result |-> st]),
                         !.tab = IF ok THEN [x \in (DOMAIN @) \ {h} |-> @[x]] ELSE @],
         st |-> st]

\* ---- the wrappers of h5t

\* what a function of h5t hands back, with the run as it leaves it
Res(E, id, err) == [E |-> E, id |-> id, err |-> err, panic |-> FALSE]

\* the function panicked
Panic(E) == [E |-> E, id |-> 0, err |-> NilErr, panic |-> TRUE]

\* fmt.Errorf(format, args...)
Errorff(format, args) == Errorf(Sprintf(format, args))

\* if err != nil, with a plausible slip (the error is never looked at)
FailedNever(err) == FALSE

\* if err != nil
Failed(err) == err # NilErr

\* Datatype.Copy of a predefined type
Datatype_Copy(name, E) ==
    LET c == H5Tcopy(E, name)
        r == try(c.id, Ctx("copying datatype"), <<>>)
    IN  Res(c.E, r.id, r.err)

Datatype_SetSize(t, bytes, E) ==
    LET c == H5Tset_size(E, t, bytes)
    IN  Res(c.E, t, Status(c.st, Ctx("setting bytes size"), <<>>))

Datatype_SetSign(t, signed, E) ==
    LET c == H5Tset_sign(E, t, signed)
    IN  Res(c.E, t, Status(c.st, Ctx("setting signedness"), <<>>))

\* Datatype.Close, its error dropped as `defer t.Close()` drops it
Deferred_Close(t, E) == H5Tclose(E, t).E

h5t_Create(class, bytes, E) ==
    LET c == H5Tcreate(E, class, bytes)
        r == try(c.id, Ctx("creating datatype"), <<>>)
    IN  Res(c.E, r.id, r.err)

\* Open(from, name, access): from.At() on a nil Location panics
h5t_Open(from, name, E) ==
    IF from = "nil" THEN Panic(E)
    ELSE LET c == H5Topen(E, name)
             r == try(c.id, <<"opening saved datatype ", "%", "s">>, <<(<<name>>)>>)
         IN  Res(c.E, r.id, r.err)

\* Int8 .. Uint64 (native type, bytes, signed): copy the native type, set its size, set its sign; the handle
\* copied is what is returned, whichever of the later steps fails
NativeInt(name, bytes, signed, E) ==
    LET c == Datatype_Copy(name, E)
    IN  IF Failed(c.err) THEN c
        ELSE LET s == Datatype_SetSize(c.id, bytes, c.E)
             IN  IF Failed(s.err) THEN s
                 ELSE Datatype_SetSign(c.id, signed, s.E)

NativeFloat(name, bytes, E) ==
    LET c == Datatype_Copy(name, E)
    IN  IF Failed(c.err) THEN c ELSE Datatype_SetSize(c.id, bytes, c.E)

\* the Field of Struct: Name, Type (a handle), Offset
Field(name, type, offset) == [name |-> name, type |-> type, offset |-> offset]

\* the loop of Struct from field i on
RECURSIVE StructInsert(_, _, _, _)
StructInsert(T, fields, i, E) ==
    IF i > Len(fields) THEN Res(E, T, NilErr)
    ELSE LET c == H5Tinsert(E, T, fields[i].name, fields[i].offset, fields[i].type)
             err == Status(c.st, <<"setting field ", "%", "s", " of structure">>,
                           <<(<<fields[i].name>>)>>)
         IN  IF Failed(err) THEN Res(c.E, T, err)
             ELSE StructInsert(T, fields, i + 1, c.E)

Struct(fullsize, fields, E) ==
    LET c == h5t_Create("compound", fullsize, E)
    IN  IF Failed(c.err) THEN c ELSE StructInsert(c.id, fields, 1, c.E)

\* Complex64 and Complex128: a compound of two floats, the float closed on return
Complex(f, bytes) ==
    IF Failed(f.err) THEN Res(f.E, -1, f.err)
    ELSE LET s == Struct(bytes, <<Field("re", f.id, 0), Field("im", f.id, bytes \div 2)>>, f.E)
         IN  [s EXCEPT !.E = Deferred_Close(f.id, @)]

varstring(E) ==
    LET c == Datatype_Copy("VSTRING", E)
    IN  IF Failed(c.err) THEN c ELSE Datatype_SetSize(c.id, H5T_VARIABLE, c.E)

\* String(length, utf8)
String(length, utf8, E) ==
    LET t == IF length < 0 THEN varstring(E) ELSE h5t_Create("string", length, E)
    IN  IF Failed(t.err) THEN t
        ELSE LET c == H5Tset_cset(t.E, t.id, utf8)
             IN  Res(c.E, t.id,
                     Status(c.st, Ctx(IF utf8 THEN "setting UTF-8 encoding"
                                      ELSE "setting ASCII encoding"), <<>>))

List(T, E) ==
    LET c == H5Tvlen_create(E, T)
        r == try(c.id, Ctx("creating varlength array datatype"), <<>>)
    IN  Res(c.E, r.id, r.err)

NDarray(T, dims, E) ==
    LET c == H5Tarray_create2(E, T, dims)
        r == try(c.id, Ctx("creating NDarray datatype"), <<>>)
    IN  Res(c.E, r.id, r.err)

\* atomic(k), with the constructor of each kind written out: Int8 .. Uint64
\* (native type, bytes, signed), Float32 and Float64, Complex64 and Complex128,
\* Bool (a copy of NBOOL) and String(-1, true)
atomic(k, E) ==
    CASE k = "int8" -> NativeInt("NCHAR", 1, TRUE, E)
      [] k = "int16" -> NativeInt("NSHORT", 2, TRUE, E)
      [] k = "int32" -> NativeInt("NINT", 4, TRUE, E)
      [] k = "int64" -> NativeInt("NLONG", 8, TRUE, E)
      [] k = "uint8" -> NativeInt("NUCHAR", 1, FALSE, E)
      [] k = "uint16" -> NativeInt("NUSHORT", 2, FALSE, E)
      [] k = "uint32" -> NativeInt("NUINT", 4, FALSE, E)
      [] k = "uint64" -> NativeInt("NULONG", 8, FALSE, E)
      [] k = "float32" -> NativeFloat("NFLOAT", 4, E)
      [] k = "float64" -> NativeFloat("NDOUBLE", 8, E)
      [] k = "complex64" -> Complex(NativeFloat("NFLOAT", 4, E), 8)
      [] k = "complex128" -> Complex(NativeFloat("NDOUBLE", 8, E), 16)
      [] k = "bool" -> Datatype_Copy("NBOOL", E)
      [] k = "string" -> String(-1, TRUE, E)
      [] OTHER -> Res(E, -1, Errorff(<<"Non-atomic kind: ", "%", "s">>, <<(<<k>>)>>))

\* the dims and the element type array() collects from nested arrays
\* the dims of array() with a plausible slip (only the outermost extent)
ArrayDimsOuterOnly(v) == <<v.len>>

RECURSIVE ArrayDims(_)
ArrayDims(v) == <<v.len>> \o (IF v.elem.kind = "array" THEN ArrayDims(v.elem) ELSE <<>>)

RECURSIVE ArrayElt(_)
ArrayElt(v) == IF v.elem.kind = "array" THEN ArrayElt(v.elem) ELSE v.elem

\* the hdf:"ignore" test of structure, with a plausible slip (no field is ignored)
IgnoredNever(fld) == FALSE

\* tag := fld.Tag.Get("hdf"); tag == "ignore"
Ignored(fld) == fld.hdf = "ignore"

\* the name structure stores for a field, with a plausible slip (the tag is
\* not looked at)
FieldNameUntagged(fld) == fld.name

\* fname := fld.Name, replaced by the hdf tag when there is one
FieldName(fld) == IF fld.hdf # "" THEN fld.hdf ELSE fld.name

\* the hdftype test of structure, with a plausible slip (the tag is never seen)
HasTypeTagNever(fld) == FALSE

\* tag := fld.Tag.Get("hdftype"); tag != ""
HasTypeTag(fld) == fld.hdftype # ""

\* parse enters type T: the walk records it and how many engine calls came before
\* a declared type, by name
TypeNamed(name) == [kind |-> "named", name |-> name]

\* the declared struct types of the callers:
\*   type Node struct { Val int32; Next *Node }
\*   type Tree struct { Kids []Tree }
\*   type Skip struct { Val int32; Next *Skip `hdf:"ignore"` }
\*   type Saved struct { Next *Saved `hdftype:"int32"` }
\*   type Broken struct { M map[string]int32; Next *Broken }
\*   type Outer struct { In *Inner; Again **Inner }
\*   type Inner struct { V int32 }
Declared(name) ==
    CASE name = "Node" ->
            StructOf(<<StructField("Val", "", "", Atom("int32")),
                       StructField("Next", "", "", PtrTo(TypeNamed("Node")))>>)
      [] name = "Tree" ->
            StructOf(<<StructField("Kids", "", "", SliceOf(TypeNamed("Tree")))>>)
      [] name = "Skip" ->
            StructOf(<<StructField("Val", "", "", Atom("int32")),
                       StructField("Next", "ignore", "", PtrTo(TypeNamed("Skip")))>>)
      [] name = "Saved" ->
            StructOf(<<StructField("Next", "", "int32", PtrTo(TypeNamed("Saved")))>>)
      [] name = "Broken" ->
            StructOf(<<StructField("M", "", "", Atom("map")),
                       StructField("Next", "", "", PtrTo(TypeNamed("Broken")))>>)
      [] name = "Outer" ->
            StructOf(<<StructField("In", "", "", PtrTo(TypeNamed("Inner"))),
                       StructField("Again", "", "", PtrTo(PtrTo(TypeNamed("Inner"))))>>)
      [] OTHER ->
            StructOf(<<StructField("V", "", "", Atom("int32"))>>)

DeclaredNames == {"Node", "Tree", "Skip", "Saved", "Broken", "Outer", "Inner"}

\* how many times name is among the declared types parse is inside of
Unfolded(name, E) == Cardinality({i \in 1..Len(E.active) : E.active[i] = name})

\* the goroutine's stack ran out: the recursion had no end
Overflow(E) == [E |-> E, id |-> 0, err |-> NilErr, panic |-> TRUE, deep |-> TRUE]

\* case reflect.Ptr, with a plausible slip (pointers fall to the default case)
DereferencedNoPtr == {"interface"}

\* case reflect.Ptr, reflect.Interface
Dereferenced == {"ptr", "interface"}

Visit(T, E) == [E EXCEPT !.walk = Append(@, [type |-> T, calls |-> Len(E.log)])]

RECURSIVE parse(_, _, _)

array(v, loc, E) ==
    LET t == parse(ArrayElt(v), loc, E)
    IN  IF t.panic THEN t
        ELSE IF Failed(t.err) THEN Res(t.E, -1, t.err)
        ELSE LET a == NDarray(t.id, ArrayDims(v), t.E)
             IN  [a EXCEPT !.E = Deferred_Close(t.id, @)]

slice(v, loc, E) ==
    LET t == parse(v.elem, loc, E)
    IN  IF t.panic THEN t
        ELSE IF Failed(t.err) THEN Res(t.E, -1, t.err)
        ELSE LET l == List(t.id, t.E)
             IN  [l EXCEPT !.E = Deferred_Close(t.id, @)]

\* the loop of structure from field i on; every ftype.Close() deferred on the
\* way runs when structure returns or unwinds, the last deferred first
RECURSIVE structureFrom(_, _, _, _, _)
structureFrom(v, lc, i, fields, E) ==
    IF i > Len(v.fields) THEN Struct(Sizeof(v), fields, E)
    ELSE LET fld == v.fields[i]
         IN  IF Ignored(fld) THEN structureFrom(v, lc, i + 1, fields, E)
             ELSE LET fname == FieldName(fld)
                      t == IF HasTypeTag(fld) THEN h5t_Open(lc, fld.hdftype, E)
                           ELSE parse(fld.type, lc, E)
                  IN  IF t.panic THEN t
                      ELSE IF Failed(t.err) THEN Res(t.E, -1, t.err)
                      ELSE LET rest == structureFrom(v, lc, i + 1,
                                           Append(fields, Field(fname, t.id, FieldOffset(v, i))),
                                           t.E)
                           IN  [rest EXCEPT !.E = Deferred_Close(t.id, @)]

structure(v, lc, E) == structureFrom(v, lc, 1, <<>>, E)

parse(T, ctxt, E0) ==
    LET K == T.kind
        E == Visit(T, E0)
    IN  CASE K = "named" ->
                IF Unfolded(T.name, E0) >= MaxUnfold
                THEN Overflow(Visit(Declared(T.name), E0))
                ELSE LET r == parse(Declared(T.name), ctxt,
                                    [E0 EXCEPT !.active = Append(@, T.name)])
                     IN  [r EXCEPT !.E.active = E0.active]
          [] K = "array" -> array(T, ctxt, E)
          [] K = "slice" -> slice(T, ctxt, E)
          [] K = "map" -> Res(E, -1, Errorff(Ctx("Maps are not serializable"), <<>>))
          [] K = "struct" -> structure(T, ctxt, E)
          [] K \in {"chan", "func", "invalid"} ->
                Res(E, -1, Errorff(<<"%", "s", " not HDF serializable">>, <<(<<K>>)>>))
          [] K \in {"uintptr", "unsafe.Pointer"} ->
                Res(E, -1, Errorff(Ctx("Unsafe ptr not supported"), <<>>))
          [] K \in Dereferenced ->
                IF K = "interface" THEN Panic(E)      \* T.Elem() of an interface type
                ELSE parse(T.elem, ctxt, E)
          [] OTHER -> atomic(K, E)

\* Parse(obj, ctxt); obj is nil or holds a value of type obj.type
Parse(obj, ctxt, E) ==
    IF obj.nil THEN Res(E, -1, Errorff(Ctx("Nothing provided"), <<>>))
    ELSE parse(obj.type, ctxt, E)

\* ---- the values handed to Parse

\* the names of the fields by position, and the field types with their tags
FieldNamesByPos == <<"data", "cst", "length", "foo", "tag", "tags">>

NestedStruct ==
    StructOf(<<StructField("x", "", "", Atom("int8")),
               StructField("p", "", "", Atom("unsafe.Pointer"))>>)

FieldOptions ==
    {[hdf |-> "", hdftype |-> "", type |-> ArrayOf(2, ArrayOf(2, Atom("int32")))],
     [hdf |-> "constant", hdftype |-> "", type |-> Atom("float64")],
     [hdf |-> "", hdftype |-> "", type |-> Atom("map")],
     [hdf |-> "ignore", hdftype |-> "", type |-> Atom("map")],
     [hdf |-> "", hdftype |-> "int32", type |-> Atom("map")],
     [hdf |-> "len", hdftype |-> "int32", type |-> Atom("uint32")],
     [hdf |-> "", hdftype |-> "float", type |-> Atom("float64")],
     [hdf |-> "", hdftype |-> "", type |-> Atom("interface")],
     [hdf |-> "ignore", hdftype |-> "", type |-> SliceOf(Atom("string"))],
     [hdf |-> "len", hdftype |-> "", type |-> PtrTo(Atom("chan"))],
     [hdf |-> "", hdftype |-> "", type |-> SliceOf(Atom("func"))],
     [hdf |-> "", hdftype |-> "", type |-> NestedStruct]}

FieldLists == SeqsUpTo(FieldOptions, MaxFields)

Structs ==
    {StructOf([i \in 1..Len(fs) |->
                 StructField(FieldNamesByPos[i], fs[i].hdf, fs[i].hdftype, fs[i].type)]) :
        fs \in FieldLists}

\* the Struct of the test
TestStruct ==
    StructOf(<<StructField("data", "", "", ArrayOf(2, ArrayOf(2, Atom("int32")))),
               StructField("cst", "constant", "", Atom("float64")),
               StructField("length", "len", "", Atom("uint32")),
               StructField("foo", "", "", Atom("complex128")),
               StructField("tag", "", "", Atom("string")),
               StructField("tags", "ignore", "", SliceOf(Atom("string")))>>)

\* the kinds a value can have by itself
Leaves ==
    {Atom(k) : k \in AtomicKinds \cup {"int", "uint", "uintptr", "unsafe.Pointer",
                                       "map", "chan", "func"}}

Wrapped == Leaves \cup {s \in Structs : Len(s.fields) = 1}

\* nested arrays of distinct extents, one of them through a pointer and one empty
NestedArrays ==
    {ArrayOf(2, ArrayOf(3, Atom("int32"))),
     ArrayOf(3, ArrayOf(1, ArrayOf(2, Atom("float64")))),
     ArrayOf(2, PtrTo(ArrayOf(3, Atom("int8")))),
     ArrayOf(2, ArrayOf(0, Atom("bool")))}

\* structs whose fields are pointers, slices and strings:
\*   struct { big *[3]int64 }
\*   struct { list []int32; text string; small *int8 }
PointerStructs ==
    {StructOf(<<StructField("big", "", "", PtrTo(ArrayOf(3, Atom("int64"))))>>),
     StructOf(<<StructField("list", "", "", SliceOf(Atom("int32"))),
                StructField("text", "", "", Atom("string")),
                StructField("small", "", "", PtrTo(Atom("int8")))>>)}

\* structs whose rename tags collide: with another field's name, with each other
\*   struct { data int8 `hdf:"cst"`; cst int8 }
\*   struct { data int8 `hdf:"len"`; cst int16 `hdf:"len"`; length int32 }
RenamedStructs ==
    {StructOf(<<StructField("data", "cst", "", Atom("int8")),
                StructField("cst", "", "", Atom("int8"))>>),
     StructOf(<<StructField("data", "len", "", Atom("int8")),
                StructField("cst", "len", "", Atom("int16")),
                StructField("length", "", "", Atom("int32"))>>)}

ParseTypes ==
    Leaves \cup Structs \cup {TestStruct} \cup NestedArrays \cup PointerStructs
    \cup RenamedStructs
    \cup {PtrTo(t) : t \in Wrapped} \cup {SliceOf(t) : t \in Wrapped}
    \cup {ArrayOf(2, t) : t \in Wrapped}

NilObj == [nil |-> TRUE, type |-> Atom("invalid")]

ParseObjs == {NilObj} \cup {[nil |-> FALSE, type |-> t] : t \in ParseTypes}

\* the Location handed to Parse: nil or an open file
Locations == {"nil", "file"}

\* ---- the actions

\* h5t.Parse(obj, ctxt), on the engine as the start of the program leaves it
ParseCall ==
    /\ op = "init"
    /\ \E obj \in ParseObjs, ctxt \in Locations, fail \in 0..MaxFail :
        LET r == Parse(obj, ctxt, NewRun(fail))
        IN  /\ op' = "Parse"
            /\ inp' = [obj |-> obj, ctxt |-> ctxt]
            /\ ret' = IF r.panic THEN Panicked ELSE Returned(r.id, r.err)
            /\ calls' = r.E.log
            /\ types' = r.E.tab
            /\ walk' = r.E.walk
            /\ UNCHANGED <<space, sel, nops, enum, limits, procs, xfer, plist>>

\* the caller closes the datatype Parse handed back: Datatype.Close
Datatype_Close ==
    /\ op = "Parse"
    /\ ~ret.panic
    /\ \E fail \in 0..1 :
       LET c == H5Tclose(RunOn(types, fail), ret.id)
       IN  /\ op' = "Datatype.Close"
           /\ inp' = [id |-> ret.id, fail |-> fail]
           /\ ret' = Returned(0, Status(c.st, Ctx("closing datatype"), <<>>))
           /\ calls' = c.E.log
           /\ types' = c.E.tab
           /\ UNCHANGED <<space, sel, nops, walk, enum, limits, procs, xfer, plist>>

NextParse == ParseCall \/ Datatype_Close

\* the derivation never came back: it recursed until the stack ran out
Unbounded == [id |-> 0, err |-> NilErr, panic |-> TRUE, deep |-> TRUE]

\* the values of declared types handed to Parse: a Node, a *Node, a []Node, ...
NamedObjs ==
    {[nil |-> FALSE, type |-> t] :
        t \in {TypeNamed(n) : n \in DeclaredNames}
               \cup {PtrTo(TypeNamed(n)) : n \in DeclaredNames}
               \cup {SliceOf(TypeNamed(n)) : n \in DeclaredNames}}

\* h5t.Parse(obj, ctxt) of a value of a declared type
ParseNamed ==
    /\ op = "init"
    /\ \E obj \in NamedObjs, ctxt \in Locations, fail \in 0..MaxFail :
        LET r == Parse(obj, ctxt, NewRun(fail))
        IN  /\ op' = "Parse"
            /\ inp' = [obj |-> obj, ctxt |-> ctxt]
            /\ ret' = IF r.panic
                      THEN (IF "deep" \in DOMAIN r THEN Unbounded ELSE Panicked)
                      ELSE Returned(r.id, r.err)
            /\ calls' = r.E.log
            /\ types' = r.E.tab
            /\ walk' = r.E.walk
            /\ UNCHANGED <<space, sel, nops, enum, limits, procs, xfer, plist>>

NextNamed == ParseNamed \/ Datatype_Close

SpecNamed == Init /\ [][NextNamed]_vars

SpecParse == Init /\ [][NextParse]_vars

\* ---- claims about the derivation

\* the kinds parse refuses by name
Unserializable == {"map", "func", "chan", "uintptr", "unsafe.Pointer", "invalid"}

\* the engine calls that build a compound, array or list descriptor
Builders == {"H5Tcreate", "H5Tinsert", "H5Tarray_create2", "H5Tvlen_create"}

\* does T hold an unserializable kind at a position that is not ignore-tagged
RECURSIVE ContainsUnserializable(_)
ContainsUnserializable(T) ==
    CASE T.kind \in Unserializable -> TRUE
      [] T.kind \in {"ptr", "slice", "array"} -> ContainsUnserializable(T.elem)
      [] T.kind = "struct" ->
            \E i \in 1..Len(T.fields) :
                T.fields[i].hdf # "ignore" /\ ContainsUnserializable(T.fields[i].type)
      [] OTHER -> FALSE

\* the same, at a position that is neither ignore-tagged nor replaced by the
\* lookup of an hdftype tag
RECURSIVE ContainsDerivedUnserializable(_)
ContainsDerivedUnserializable(T) ==
    CASE T.kind \in Unserializable -> TRUE
      [] T.kind \in {"ptr", "slice", "array"} -> ContainsDerivedUnserializable(T.elem)
      [] T.kind = "struct" ->
            \E i \in 1..Len(T.fields) :
                /\ T.fields[i].hdf # "ignore"
                /\ T.fields[i].hdftype = ""
                /\ ContainsDerivedUnserializable(T.fields[i].type)
      [] OTHER -> FALSE

\* Parse returned a non-nil error and -1, and once the walk entered an
\* unserializable kind it entered nothing more and built no descriptor
RefusedWhole ==
    /\ ~ret.panic
    /\ ret.err # NilErr
    /\ ret.id = -1
    /\ \A i \in 1..Len(walk) :
          walk[i].type.kind \in Unserializable =>
              /\ i = Len(walk)
              /\ \A j \in (walk[i].calls + 1)..Len(calls) : calls[j].fn \notin Builders

RECURSIVE WalkOf(_)
RECURSIVE WalkOfFields(_, _)
WalkOfFields(fs, i) ==
    IF i > Len(fs) THEN <<>>
    ELSE (IF fs[i].hdf = "ignore" \/ fs[i].hdftype # "" THEN <<>> ELSE WalkOf(fs[i].type))
         \o WalkOfFields(fs, i + 1)

WalkOf(T) ==
    <<T>> \o (CASE T.kind \in {"ptr", "slice"} -> WalkOf(T.elem)
                [] T.kind = "array" -> WalkOf(ArrayElt(T))
                [] T.kind = "struct" -> WalkOfFields(T.fields, 1)
                [] OTHER -> <<>>)

\* the fields not tagged ignore, in declaration order
RECURSIVE Kept(_, _)
Kept(fs, i) ==
    IF i > Len(fs) THEN <<>>
    ELSE (IF fs[i].hdf = "ignore" THEN <<>> ELSE <<fs[i]>>) \o Kept(fs, i + 1)

\* descriptor d lists, for every struct of T, exactly the kept fields in order
RECURSIVE ListsKept(_, _)
ListsKept(d, T) ==
    CASE T.kind = "ptr" -> ListsKept(d, T.elem)
      [] T.kind = "slice" -> d.class = "vlen" /\ ListsKept(d.elem, T.elem)
      [] T.kind = "array" -> d.class = "array" /\ ListsKept(d.elem, ArrayElt(T))
      [] T.kind = "struct" ->
            LET kept == Kept(T.fields, 1)
            IN  /\ d.class = "compound"
                /\ Len(d.fields) = Len(kept)
                /\ \A i \in 1..Len(kept) :
                      /\ d.fields[i].name =
                             (IF kept[i].hdf # "" THEN kept[i].hdf ELSE kept[i].name)
                      /\ kept[i].hdftype = "" => ListsKept(d.fields[i].type, kept[i].type)
      [] OTHER -> TRUE

\* C10: the walk of Parse never enters the type of a field tagged hdf:"ignore"
\* (it is a prefix of the walk that skips those fields), and when Parse
\* succeeds the compound of every struct lists exactly the fields not tagged
\* ignore, in declaration order
C10_IgnoredFieldsSkipped ==
    (op = "Parse" /\ ~inp.obj.nil) =>
        /\ Len(walk) <= Len(WalkOf(inp.obj.type))
        /\ \A i \in 1..Len(walk) : walk[i].type = WalkOf(inp.obj.type)[i]
        /\ (~ret.panic /\ ret.err = NilErr) =>
              /\ ret.id \in DOMAIN types
              /\ ListsKept(types[ret.id], inp.obj.type)

\* struct{data map `hdf:"ignore"`; cst float64 `hdf:"constant"`} derives a
\* compound of the one field "constant"
C10_Witness ==
    /\ op = "Parse"
    /\ ~inp.obj.nil
    /\ inp.obj.type =
          StructOf(<<StructField("data", "ignore", "", Atom("map")),
                     StructField("cst", "constant", "", Atom("float64"))>>)
    /\ ret.err = NilErr
    /\ ret.id \in DOMAIN types
    /\ types[ret.id] = TCompound(16, <<TField("constant", TFloat(8), 8)>>)
    /\ Len(walk) = 2

\* descriptor d stores, for every struct of T, each kept field under its hdf
\* tag when it has one and under its Go name when it has none
RECURSIVE NamesFollowTags(_, _)
NamesFollowTags(d, T) ==
    CASE T.kind = "ptr" -> NamesFollowTags(d, T.elem)
      [] T.kind = "slice" -> NamesFollowTags(d.elem, T.elem)
      [] T.kind = "array" -> NamesFollowTags(d.elem, ArrayElt(T))
      [] T.kind = "struct" ->
            LET kept == Kept(T.fields, 1)
            IN  \A i \in 1..Len(kept) :
                   /\ kept[i].hdf # "" => d.fields[i].name = kept[i].hdf
                   /\ kept[i].hdf = "" => d.fields[i].name = kept[i].name
                   /\ kept[i].hdftype = "" =>
                          NamesFollowTags(d.fields[i].type, kept[i].type)
      [] OTHER -> TRUE

\* C11: when Parse succeeds, every struct field with a non-empty hdf tag other
\* than "ignore" is stored in the compound under the tag's value, and every
\* field without an hdf tag under its Go member name
C11_StoredNameIsTagOrMemberName ==
    (op = "Parse" /\ ~inp.obj.nil /\ ~ret.panic /\ ret.err = NilErr) =>
        NamesFollowTags(types[ret.id], inp.obj.type)

\* struct{data [2][2]int32; cst float64 `hdf:"constant"`} derives the fields
\* "data" and "constant"
C11_Witness ==
    /\ op = "Parse"
    /\ ~inp.obj.nil
    /\ inp.obj.type =
          StructOf(<<StructField("data", "", "", ArrayOf(2, ArrayOf(2, Atom("int32")))),
                     StructField("cst", "constant", "", Atom("float64"))>>)
    /\ ret.err = NilErr
    /\ ret.id \in DOMAIN types
    /\ [i \in 1..Len(types[ret.id].fields) |-> types[ret.id].fields[i].name]
          = <<"data", "constant">>

\* descriptor d holds, for every field of T with an hdftype tag, the committed
\* datatype of that name
RECURSIVE TaggedTypesLookedUp(_, _)
TaggedTypesLookedUp(d, T) ==
    CASE T.kind = "ptr" -> TaggedTypesLookedUp(d, T.elem)
      [] T.kind = "slice" -> TaggedTypesLookedUp(d.elem, T.elem)
      [] T.kind = "array" -> TaggedTypesLookedUp(d.elem, ArrayElt(T))
      [] T.kind = "struct" ->
            LET kept == Kept(T.fields, 1)
            IN  \A i \in 1..Len(kept) :
                   IF kept[i].hdftype # ""
                   THEN /\ kept[i].hdftype \in CommittedNames
                        /\ d.fields[i].type = CommittedDesc(kept[i].hdftype)
                   ELSE TaggedTypesLookedUp(d.fields[i].type, kept[i].type)
      [] OTHER -> TRUE

\* the hdftype tags of the fields of T that are not tagged ignore
RECURSIVE TypeTags(_)
TypeTags(T) ==
    CASE T.kind \in {"ptr", "slice", "array"} -> TypeTags(T.elem)
      [] T.kind = "struct" ->
            UNION {IF T.fields[i].hdf = "ignore" THEN {}
                   ELSE IF T.fields[i].hdftype # "" THEN {T.fields[i].hdftype}
                   ELSE TypeTags(T.fields[i].type) : i \in 1..Len(T.fields)}
      [] OTHER -> {}

\* C12: a field with an hdftype tag gets its datatype from H5Topen of the tag
\* and is never derived from its Go type: when Parse succeeds the field holds
\* the committed datatype; when an H5Topen fails, Parse returns -1 with the
\* error of that lookup, and after the failed lookup the walk enters no type
\* and the engine is only asked to close what was derived before
C12_TypeTagOpensCommittedType ==
    (op = "Parse" /\ ~inp.obj.nil) =>
        /\ \A j \in 1..Len(calls) :
              calls[j].fn = "H5Topen" =>
                  /\ calls[j].name \in TypeTags(inp.obj.type)
                  /\ calls[j].result < 0 =>
                        /\ ret = Returned(-1, Status(-1, Sprintf(<<"opening saved datatype ", "%", "s">>,
                                                                  <<(<<calls[j].name>>)>>), <<>>))
                        /\ \A k \in (j + 1)..Len(calls) : calls[k].fn = "H5Tclose"
                        /\ \A i \in 1..Len(walk) : walk[i].calls < j
        /\ (~ret.panic /\ ret.err = NilErr) =>
              TaggedTypesLookedUp(types[ret.id], inp.obj.type)

\* struct{data float64 `hdf:"constant"`; cst uint32 `hdf:"len" hdftype:"int32"`}
\* with a file in which the lookup of "int32" fails: the float is derived and
\* closed, the uint32 is never derived
C12_Witness ==
    /\ op = "Parse"
    /\ ~inp.obj.nil
    /\ inp.ctxt = "file"
    /\ inp.obj.type =
          StructOf(<<StructField("data", "constant", "", Atom("float64")),
                     StructField("cst", "len", "int32", Atom("uint32"))>>)
    /\ Len(calls) = 4
    /\ calls[3] = [fn |-> "H5Topen", name |-> "int32", result |-> -1]
    /\ calls[4].fn = "H5Tclose"
    /\ ret.id = -1
    /\ ret.err # NilErr
    /\ Len(walk) = 2
    /\ DOMAIN types = {}

\* the extents d1, d2, ..., dk of a nested array type, outermost first, and
\* the type T under them
RECURSIVE NestingExtents(_)
NestingExtents(T) == IF T.kind = "array" THEN <<T.len>> \o NestingExtents(T.elem) ELSE <<>>

RECURSIVE Innermost(_)
Innermost(T) == IF T.kind = "array" THEN Innermost(T.elem) ELSE T

\* through pointers, is T an array
RECURSIVE PointsToArray(_)
PointsToArray(T) ==
    CASE T.kind = "array" -> TRUE
      [] T.kind = "ptr" -> PointsToArray(T.elem)
      [] OTHER -> FALSE

\* in descriptor d every nested array of T is one array of all its extents,
\* whose element is an array only when the innermost type itself derives one
RECURSIVE ArraysFlattened(_, _)
ArraysFlattened(d, T) ==
    CASE T.kind = "ptr" -> ArraysFlattened(d, T.elem)
      [] T.kind = "slice" -> ArraysFlattened(d.elem, T.elem)
      [] T.kind = "array" ->
            /\ d.class = "array"
            /\ d.dims = NestingExtents(T)
            /\ d.elem.class = "array" => PointsToArray(Innermost(T))
            /\ ArraysFlattened(d.elem, Innermost(T))
      [] T.kind = "struct" ->
            LET kept == Kept(T.fields, 1)
            IN  \A i \in 1..Len(kept) :
                   kept[i].hdftype = "" => ArraysFlattened(d.fields[i].type, kept[i].type)
      [] OTHER -> TRUE

\* the descriptor a derivation of T by itself ends with, when nothing fails
DerivationOf(T, ctxt) ==
    LET r == parse(T, ctxt, NewRun(0)) IN r.E.tab[r.id]

PrimitiveKinds ==
    {"int8", "int16", "int32", "int64", "int", "uint8", "uint16", "uint32", "uint64",
     "uint", "float32", "float64", "bool", "string"}

PrimitiveDesc(k) ==
    CASE k = "int8" -> TInt(1, TRUE)
      [] k = "int16" -> TInt(2, TRUE)
      [] k = "int32" -> TInt(4, TRUE)
      [] k \in {"int64", "int"} -> TInt(8, TRUE)
      [] k = "uint8" -> TInt(1, FALSE)
      [] k = "uint16" -> TInt(2, FALSE)
      [] k = "uint32" -> TInt(4, FALSE)
      [] k \in {"uint64", "uint"} -> TInt(8, FALSE)
      [] k = "float32" -> TFloat(4)
      [] k = "float64" -> TFloat(8)
      [] k = "bool" -> BaseDesc("NBOOL")
      [] k = "string" -> TString(H5T_VARIABLE, TRUE)

\* C14: Parse of a value of a primitive kind (int8 .. int64, uint8 .. uint64,
\* int, uint, float32, float64, bool, string), when no engine call fails,
\* succeeds with the leaf descriptor of that kind: an integer of the kind's
\* width and signedness, a float of 4 or 8 bytes, the boolean leaf, a
\* variable-length UTF-8 string
C14_PrimitiveKindsDerive ==
    (/\ op = "Parse" /\ ~inp.obj.nil
     /\ inp.obj.type.kind \in PrimitiveKinds
     /\ \A j \in 1..Len(calls) : calls[j].result >= 0) =>
        /\ ~ret.panic
        /\ ret.err = NilErr
        /\ ret.id \in DOMAIN types
        /\ types[ret.id] = PrimitiveDesc(inp.obj.type.kind)


(***************************************************************************)
(* Enumerations (src/h5t/h5t.go~, NewEnum and enum8 .. enum64).  A uint64  *)
(* is four 16-bit limbs, most significant first, as hsize_t is; a C string *)
(* is a sequence of one-character strings and NUL is its terminator.  The  *)
(* engine takes an integer datatype only for the base of an enumeration    *)
(* (H5Tenum_create: "must be an integer datatype"), refuses a member whose *)
(* name or value is already there, and H5Tenum_nameof fails, leaving the   *)
(* first `size` characters in the buffer, when the name and its terminator *)
(* do not fit.                                                             *)
(***************************************************************************)

\* ---- bound of the enum model: engine calls one operation makes before the
\* ---- failure oracle stops choosing
MaxEnumFail == 2

NUL == "NUL"

\* uintN(val) for N = width: the conversion keeps the low N bits
uintN(width, val) ==
    CASE width = 8 -> <<0, 0, 0, val[4] % 256>>
      [] width = 16 -> <<0, 0, 0, val[4]>>
      [] width = 32 -> <<0, 0, val[3], val[4]>>
      [] OTHER -> val

\* the native type NewEnum hands to mkenum
EnumBase(size) ==
    CASE size = 8 -> "N8"
      [] size = 16 -> "N16"
      [] size = 32 -> "N32"
      [] OTHER -> "N64"

IsEnum(E, h) == IsOpen(E, h) /\ E.tab[h].class = "enum"

H5Tenum_create(E, base) ==
    EngineNew(E, [fn |-> "H5Tenum_create", base |-> base],
              BaseDesc(base).class = "integer",
              [class |-> "enum", size |-> BaseDesc(base).size, members |-> <<>>])

H5Tenum_insert(E, h, name, value) ==
    EngineSet(E, [fn |-> "H5Tenum_insert", id |-> h, name |-> name, value |-> value], h,
              IsEnum(E, h) /\ \A i \in 1..Len(E.tab[h].members) :
                                  /\ E.tab[h].members[i].name # name
                                  /\ E.tab[h].members[i].value # value,
              [E.tab[h] EXCEPT !.members = Append(@, [name |-> name, value |-> value])])

\* the members of enum h that carry this name (this value)
Named(E, h, name) ==
    IF IsEnum(E, h)
    THEN {i \in 1..Len(E.tab[h].members) : E.tab[h].members[i].name = name}
    ELSE {}

Valued(E, h, value) ==
    IF IsEnum(E, h)
    THEN {i \in 1..Len(E.tab[h].members) : E.tab[h].members[i].value = value}
    ELSE {}

\* H5Tenum_valueof writes the member's value through the pointer; `out` is what
\* the pointer aims at before the call
H5Tenum_valueof(E, h, name, out) ==
    LET found == Named(E, h, name)
        ok == found # {} /\ ~Fails(E)
        st == IF ok THEN 0 ELSE -1
    IN  [E |-> [E EXCEPT !.k = @ + 1,
                         !.log = Append(@, [fn |-> "H5Tenum_valueof", id |-> h,
                                            name |-> name, result |-> st])],
         st |-> st,
         out |-> IF ok THEN E.tab[h].members[CHOOSE i \in found : TRUE].value ELSE out]

\* a zeroed buffer of C chars
RECURSIVE Zeroed(_)
Zeroed(size) == IF size = 0 THEN <<>> ELSE Append(Zeroed(size - 1), NUL)

\* strncpy(buf, name, size)
Strncpy(name, size) ==
    [i \in 1..size |-> IF i <= Len(name) THEN name[i] ELSE NUL]

\* H5Tenum_nameof(h, value, buf, size) on a zeroed buffer
H5Tenum_nameof(E, h, value, size) ==
    LET found == Valued(E, h, value)
        name == E.tab[h].members[CHOOSE i \in found : TRUE].name
        ok == found # {} /\ ~Fails(E) /\ Len(name) < size
        st == IF ok THEN 0 ELSE -1
    IN  [E |-> [E EXCEPT !.k = @ + 1,
                         !.log = Append(@, [fn |-> "H5Tenum_nameof", id |-> h,
                                            value |-> value, size |-> size, result |-> st])],
         st |-> st,
         out |-> IF found # {} /\ ~Fails(E) THEN Strncpy(name, size) ELSE Zeroed(size)]

mkenum(base, E) ==
    LET c == H5Tenum_create(E, base)
        r == try(c.id, Ctx("creating enum"), <<>>)
    IN  Res(c.E, r.id, r.err)

enumset(e, name, this, E) ==
    LET c == H5Tenum_insert(E, e.id, name, this)
    IN  [E |-> c.E, err |-> Status(c.st, Ctx("adding enum value"), <<>>)]

enumvalue(e, name, out, E) ==
    LET c == H5Tenum_valueof(E, e.id, name, out)
    IN  [E |-> c.E, out |-> c.out, err |-> Status(c.st, Ctx("getting enum value"), <<>>)]

\* the characters of a buffer before its first NUL
RECURSIVE GoString(_, _)
GoString(out, i) ==
    IF i > Len(out) \/ out[i] = NUL THEN <<>>
    ELSE <<out[i]>> \o GoString(out, i + 1)

\* enumname: the buffer starts at 8 characters and doubles while the call
\* failed and the last character of the buffer is set
RECURSIVE enumname_from(_, _, _, _)
enumname_from(e, this, size, E) ==
    LET c == H5Tenum_nameof(E, e.id, this, size)
        err == Status(c.st, Ctx("getting enum name"), <<>>)
    IN  IF err # NilErr /\ c.out[size] # NUL
        THEN enumname_from(e, this, 2 * size, c.E)
        ELSE IF err # NilErr
        THEN [E |-> c.E, name |-> <<>>, err |-> err]
        ELSE [E |-> c.E, name |-> GoString(c.out, 1), err |-> NilErr]

enumname(e, this, E) == enumname_from(e, this, 8, E)

\* ---- the inputs of the enum model
EnumSizes == {8, 16, 32, 64, 12}

EnumNames == {<<"a">>, <<"b">>, <<"l", "o", "n", "g", "n", "a", "m", "e">>}

\* 1, 2, 2^8 + 1, 2^16 + 1, 2^32 + 1, 2^48 + 2^32 + 2^16 + 2^8 + 1, 2^64 - 1
EnumValues ==
    {hsize(1), hsize(2), hsize(257), <<0, 0, 1, 1>>, <<0, 1, 0, 1>>,
     <<1, 1, 1, 257>>, H5S_UNLIMITED}

\* NewEnum(size)
NewEnum ==
    \E size \in EnumSizes, fail \in 0..1 :
        /\ op' = "NewEnum"
        /\ inp' = [size |-> size, fail |-> fail]
        /\ IF size \in {8, 16, 32, 64}
           THEN LET r == mkenum(EnumBase(size), RunOn(types, fail))
                IN  /\ enum' = [width |-> size, id |-> r.id]
                    /\ ret' = Returned(r.id, r.err)
                    /\ calls' = r.E.log
                    /\ types' = r.E.tab
           ELSE /\ enum' = NoEnum
                /\ ret' = Returned(0, Errorff(<<"Invalid size: ", "%", "v">>, <<(<<"12">>)>>))
                /\ calls' = NoCalls
                /\ UNCHANGED types
        /\ UNCHANGED <<space, sel, nops, walk, limits, procs, xfer, plist>>

\* enum8.Insert .. enum64.Insert
Enum_Insert ==
    /\ enum # NoEnum
    /\ \E name \in EnumNames, val \in EnumValues, fail \in 0..1 :
        LET this == uintN(enum.width, val)
            r == enumset(enum, name, this, RunOn(types, fail))
        IN  /\ op' = "Enum.Insert"
            /\ inp' = [name |-> name, val |-> val, fail |-> fail, before |-> types]
            /\ ret' = Returned(0, r.err)
            /\ calls' = r.E.log
            /\ types' = r.E.tab
            /\ UNCHANGED <<space, sel, nops, walk, enum, limits, procs, xfer, plist>>

\* enum8.NameOf .. enum64.NameOf
Enum_NameOf ==
    /\ enum # NoEnum
    /\ \E i \in EnumValues, fail \in 0..MaxEnumFail :
        LET this == uintN(enum.width, i)
            r == enumname(enum, this, RunOn(types, fail))
        IN  /\ op' = "Enum.NameOf"
            /\ inp' = [val |-> i, fail |-> fail]
            /\ ret' = [name |-> r.name, err |-> r.err, panic |-> FALSE]
            /\ calls' = r.E.log
            /\ UNCHANGED <<space, sel, nops, types, walk, enum, limits, procs, xfer, plist>>

\* enum8.ValueOf .. enum64.ValueOf: out := new(uintN) starts at zero
Enum_ValueOf ==
    /\ enum # NoEnum
    /\ \E name \in EnumNames, fail \in 0..1 :
        LET r == enumvalue(enum, name, hsize(0), RunOn(types, fail))
        IN  /\ op' = "Enum.ValueOf"
            /\ inp' = [name |-> name, fail |-> fail]
            /\ ret' = [value |-> r.out, err |-> r.err, panic |-> FALSE]
            /\ calls' = r.E.log
            /\ UNCHANGED <<space, sel, nops, types, walk, enum, limits, procs, xfer, plist>>

NextEnum == NewEnum \/ Enum_Insert \/ Enum_NameOf \/ Enum_ValueOf

SpecEnum == Init /\ [][NextEnum]_vars

\* ---- claims about enumerations

\* the members of the Enum the caller holds, <<>> when its handle is not open
EnumMembers == IF enum.id \in DOMAIN types THEN types[enum.id].members ELSE <<>>

\* C15: with the engine failing no call for a reason of its own, NewEnum(w)
\* for w of 8, 16, 32, 64 hands out an Enum of width w; on it Insert(name, v)
\* of a fresh name and value is not rejected and stores v mod 2^w; afterwards
\* ValueOf(name) returns v mod 2^w, and NameOf(v') returns name for every v'
\* equal to v modulo 2^w
C15_InsertTruncatesAndLooksUp ==
    /\ (op = "NewEnum" /\ inp.size \in {8, 16, 32, 64} /\ inp.fail = 0)
       => ret.err = NilErr /\ enum.width = inp.size /\ enum.id \in DOMAIN types
    /\ (/\ op = "Enum.Insert"
        /\ inp.fail = 0
        /\ enum.id \in DOMAIN inp.before
        /\ \A h \in DOMAIN inp.before : \A i \in 1..Len(inp.before[h].members) :
              /\ inp.before[h].members[i].name # inp.name
              /\ inp.before[h].members[i].value # uintN(enum.width, inp.val))
       => /\ ret.err = NilErr
          /\ \E i \in 1..Len(EnumMembers) :
                EnumMembers[i] = [name |-> inp.name, value |-> uintN(enum.width, inp.val)]
    /\ (op = "Enum.ValueOf" /\ inp.fail = 0 /\ \E i \in 1..Len(EnumMembers) : EnumMembers[i].name = inp.name)
       => /\ ret.err = NilErr
          /\ \E i \in 1..Len(EnumMembers) :
                EnumMembers[i].name = inp.name /\ EnumMembers[i].value = ret.value
    /\ (/\ op = "Enum.NameOf"
        /\ inp.fail = 0
        /\ \E i \in 1..Len(EnumMembers) : EnumMembers[i].value = uintN(enum.width, inp.val))
       => /\ ret.err = NilErr
          /\ \E i \in 1..Len(EnumMembers) :
                /\ EnumMembers[i].value = uintN(enum.width, inp.val)
                /\ EnumMembers[i].name = ret.name


(***************************************************************************)
(* The free-list limits (src/unnamed/part_000): three setters that refuse  *)
(* a per-list limit above the global one, Current, and Set, which hands    *)
(* the six limits to the engine.                                           *)
(***************************************************************************)

\* the byte counts the callers pass
LimitVals == {0, 64 * KB, MB, 8 * MB}

\* if list > global, with a plausible slip (the test left out)
ListAboveGlobalUnchecked(list, global) == FALSE

\* if list > global, with a plausible slip (equal limits refused too)
ListAboveGlobalOrEqual(list, global) == list >= global

\* if list > global
ListAboveGlobal(list, global) == list > global

\* limits.Regular(list, global)
Limits_Regular ==
    \E list \in LimitVals, global \in LimitVals :
        /\ op' = "Regular"
        /\ inp' = [list |-> list, global |-> global, before |-> limits]
        /\ IF ListAboveGlobal(list, global)
           THEN ret' = [ok |-> FALSE] /\ UNCHANGED limits
           ELSE /\ limits' = [limits EXCEPT !.Reg_list = list, !.Reg_global = global]
                /\ ret' = [ok |-> TRUE]
        /\ calls' = NoCalls
        /\ UNCHANGED <<space, sel, nops, types, walk, enum, procs, xfer, plist>>

\* limits.Array(list, global)
Limits_Array ==
    \E list \in LimitVals, global \in LimitVals :
        /\ op' = "Array"
        /\ inp' = [list |-> list, global |-> global, before |-> limits]
        /\ IF ListAboveGlobal(list, global)
           THEN ret' = [ok |-> FALSE] /\ UNCHANGED limits
           ELSE /\ limits' = [limits EXCEPT !.Arr_list = list, !.Arr_global = global]
                /\ ret' = [ok |-> TRUE]
        /\ calls' = NoCalls
        /\ UNCHANGED <<space, sel, nops, types, walk, enum, procs, xfer, plist>>

\* limits.Block(list, global)
Limits_Block ==
    \E list \in LimitVals, global \in LimitVals :
        /\ op' = "Block"
        /\ inp' = [list |-> list, global |-> global, before |-> limits]
        /\ IF ListAboveGlobal(list, global)
           THEN ret' = [ok |-> FALSE] /\ UNCHANGED limits
           ELSE /\ limits' = [limits EXCEPT !.Blk_list = list, !.Blk_global = global]
                /\ ret' = [ok |-> TRUE]
        /\ calls' = NoCalls
        /\ UNCHANGED <<space, sel, nops, types, walk, enum, procs, xfer, plist>>

\* limits.Current(): rows regular, array, block; columns per-list, global
Current(self) ==
    <<(<<self.Reg_list, self.Reg_global>>),
      (<<self.Arr_list, self.Arr_global>>),
      (<<self.Blk_list, self.Blk_global>>)>>

Limits_Current ==
    /\ op' = "Current"
    /\ inp' = [before |-> limits]
    /\ ret' = [rows |-> Current(limits)]
    /\ calls' = NoCalls
    /\ UNCHANGED <<space, sel, nops, types, walk, enum, limits, procs, xfer, plist>>

\* limits.Set(): the engine takes the six limits or refuses them
Limits_Set ==
    \E st \in {-1, 0} :
        /\ op' = "Set"
        /\ inp' = [before |-> limits]
        /\ ret' = Returned(0, Status(st, Ctx("setting list limits"), <<>>))
        /\ calls' = <<[fn |-> "H5set_free_list_limits",
                       args |-> <<limits.Reg_global, limits.Reg_list,
                                  limits.Arr_global, limits.Arr_list,
                                  limits.Blk_global, limits.Blk_list>>,
                       result |-> st]>>
        /\ UNCHANGED <<space, sel, nops, types, walk, enum, limits, procs, xfer, plist>>

NextLimits ==
    Limits_Regular \/ Limits_Array \/ Limits_Block \/ Limits_Current \/ Limits_Set

SpecLimits == Init /\ [][NextLimits]_vars

\* ---- claims about the limits

\* the row of Current() a setter writes: 1 regular, 2 array, 3 block
RowOf(setter) ==
    CASE setter = "Regular" -> 1
      [] setter = "Array" -> 2
      [] OTHER -> 3

\* the two fields of a row, per-list first
FieldsOf(row) ==
    CASE row = 1 -> <<"Reg_list", "Reg_global">>
      [] row = 2 -> <<"Arr_list", "Arr_global">>
      [] OTHER -> <<"Blk_list", "Blk_global">>

\* C16: a limits setter called with list > global returns false and leaves
\* the six fields as they were; called with list <= global it returns true,
\* sets its own per-list and global fields to the arguments and leaves the
\* other four fields as they were, and Current() then reports <<list, global>>
\* in the setter's row
C16_SettersGuardAndFrame ==
    op \in {"Regular", "Array", "Block"} =>
        LET own == FieldsOf(RowOf(op))
        IN  IF inp.list > inp.global
            THEN ret.ok = FALSE /\ limits = inp.before
            ELSE /\ ret.ok = TRUE
                 /\ limits[own[1]] = inp.list
                 /\ limits[own[2]] = inp.global
                 /\ \A f \in (DOMAIN limits) \ {own[1], own[2]} : limits[f] = inp.before[f]
                 /\ Current(limits)[RowOf(op)] = <<inp.list, inp.global>>

\* the array setter took equal limits that differ from the ones in place
C16_Witness ==
    /\ op = "Array"
    /\ inp.list = inp.global
    /\ ret.ok = TRUE
    /\ limits # inp.before
    /\ limits.Reg_list = Limits.Reg_list


\* ---- the value handed back beside an error

\* C17: when Parse returns a non-nil error, the handle returned with it is -1
\* and is not a datatype left open in the engine
C17_ErrorComesWithNoArtifact ==
    (op = "Parse" /\ ~ret.panic /\ ret.err # NilErr)
        => ret.id = -1 /\ ret.id \notin DOMAIN types


\* ---- engine statuses and the error handed back

\* C18: when an engine call made during Parse returns a negative status, the
\* closes issued on the way out included, Parse returns a non-nil error
C18_NoStatusDiscarded ==
    (op = "Parse" /\ ~ret.panic /\ \E i \in 1..Len(calls) : calls[i].result < 0)
        => ret.err # NilErr


(***************************************************************************)
(* The shared file of TestFOpen (src/h5f/h5f_test.go): the test creates a  *)
(* file, starts n goroutines that each open it read-only and close it,     *)
(* waits for them and closes its own handle.  h5f.Open and h5f.Close call  *)
(* the engine at once, so a call is in progress from the step that enters  *)
(* it to the step that returns from it.  A call that overlapped another    *)
(* one raced inside an engine not built for reentrancy: it may succeed,    *)
(* fail, or bring the process down.  A call may also fail for a reason of  *)
(* the engine's own.                                                       *)
(***************************************************************************)

\* goroutine i is inside an engine call
InCall(i) == procs.g[i].pc \in {"inOpen", "inClose"}

\* goroutine i is over: its deferred wg.Done() ran
Over(i) == procs.g[i].pc \in {"done", "failed"}

\* goroutine i enters an engine call: it and every goroutine inside one raced
Enter(i, pc) ==
    LET overlap == \E j \in Openers \ {i} : InCall(j)
    IN  [j \in Openers |->
            IF j = i THEN [procs.g[j] EXCEPT !.pc = pc, !.raced = overlap]
            ELSE IF InCall(j) THEN [procs.g[j] EXCEPT !.raced = TRUE]
            ELSE procs.g[j]]

\* how the call goroutine i is inside may end
Outcomes(i) ==
    IF procs.g[i].raced THEN {"ok", "engine", "race", "crash"} ELSE {"ok", "engine"}

\* h5f.Create, and t.Fatal when it failed
Main_Create ==
    /\ procs.main = "start"
    /\ \E ok \in BOOLEAN :
        LET id == IF ok THEN procs.next ELSE -1
            r == try(id, <<"Creating file at ", "%", "s">>, <<(<<"./shared.h5">>)>>)
        IN  /\ procs' = [procs EXCEPT !.main = IF ok THEN "spawning" ELSE "fatal",
                                      !.fid = id,
                                      !.handles = IF ok THEN @ \cup {id} ELSE @,
                                      !.next = IF ok THEN @ + 1 ELSE @]
            /\ op' = "h5f.Create"
            /\ inp' = [by |-> 0]
            /\ ret' = Returned(r.id, r.err)
            /\ calls' = <<[fn |-> "H5Fcreate", result |-> id]>>
            /\ UNCHANGED <<space, sel, nops, types, walk, enum, limits, xfer, plist>>

\* wg.Add(1); go open(), for the next goroutine; wg.Wait() follows the last
Main_Go ==
    /\ procs.main = "spawning"
    /\ LET i == CHOOSE j \in Openers :
                    /\ procs.g[j].pc = "unborn"
                    /\ \A k \in Openers : procs.g[k].pc = "unborn" => j <= k
       IN  /\ procs' = [procs EXCEPT !.g[i].pc = "ready",
                                     !.main = IF i = NumOpeners THEN "waiting" ELSE @]
           /\ op' = "go open"
           /\ inp' = [by |-> 0, go |-> i]
           /\ ret' = <<>>
           /\ calls' = NoCalls
           /\ UNCHANGED <<space, sel, nops, types, walk, enum, limits, xfer, plist>>

\* h5f.Open enters H5Fopen
Open_Call ==
    \E i \in Openers :
        /\ procs.main \in {"spawning", "waiting"}
        /\ procs.g[i].pc = "ready"
        /\ procs' = [procs EXCEPT !.g = Enter(i, "inOpen")]
        /\ op' = "h5f.Open enters"
        /\ inp' = [by |-> i]
        /\ ret' = <<>>
        /\ calls' = <<[fn |-> "H5Fopen", result |-> 0]>>
        /\ UNCHANGED <<space, sel, nops, types, walk, enum, limits, xfer, plist>>

\* H5Fopen returns and try wraps its result; t.Fatal on an error
Open_Return ==
    \E i \in Openers :
        /\ procs.main \in {"spawning", "waiting"}
        /\ procs.g[i].pc = "inOpen"
        /\ \E out \in Outcomes(i) :
            LET id == IF out = "ok" THEN procs.next ELSE -1
                r == try(id, <<"opening file ", "%", "s">>, <<(<<"./shared.h5">>)>>)
            IN  /\ procs' =
                     IF out = "crash" THEN [procs EXCEPT !.main = "crashed"]
                     ELSE [procs EXCEPT !.g[i] = [pc |-> IF out = "ok" THEN "opened" ELSE "failed",
                                                  id |-> id, raced |-> out = "race"],
                                        !.handles = IF out = "ok" THEN @ \cup {id} ELSE @,
                                        !.next = IF out = "ok" THEN @ + 1 ELSE @]
                /\ op' = "h5f.Open returns"
                /\ inp' = [by |-> i]
                /\ ret' = IF out = "crash" THEN Panicked ELSE Returned(r.id, r.err)
                /\ calls' = <<[fn |-> "H5Fopen", result |-> id]>>
                /\ UNCHANGED <<space, sel, nops, types, walk, enum, limits, xfer, plist>>

\* h5f.Close enters H5Fclose
Close_Call ==
    \E i \in Openers :
        /\ procs.main \in {"spawning", "waiting"}
        /\ procs.g[i].pc = "opened"
        /\ procs' = [procs EXCEPT !.g = Enter(i, "inClose")]
        /\ op' = "h5f.Close enters"
        /\ inp' = [by |-> i]
        /\ ret' = <<>>
        /\ calls' = <<[fn |-> "H5Fclose", result |-> 0]>>
        /\ UNCHANGED <<space, sel, nops, types, walk, enum, limits, xfer, plist>>

\* H5Fclose returns and core.Status wraps its result; t.Fatal on an error
Close_Return ==
    \E i \in Openers :
        /\ procs.main \in {"spawning", "waiting"}
        /\ procs.g[i].pc = "inClose"
        /\ \E out \in Outcomes(i) :
            LET st == IF out = "ok" THEN 0 ELSE -1
            IN  /\ procs' =
                     IF out = "crash" THEN [procs EXCEPT !.main = "crashed"]
                     ELSE [procs EXCEPT !.g[i].pc = IF out = "ok" THEN "done" ELSE "failed",
                                        !.g[i].raced = (out = "race"),
                                        !.handles = IF out = "ok" THEN @ \ {procs.g[i].id} ELSE @]
                /\ op' = "h5f.Close returns"
                /\ inp' = [by |-> i]
                /\ ret' = IF out = "crash" THEN Panicked
                          ELSE Returned(0, Status(st, <<"closing fileid=", "%", "v">>, <<(<<"id">>)>>))
                /\ calls' = <<[fn |-> "H5Fclose", result |-> st]>>
                /\ UNCHANGED <<space, sel, nops, types, walk, enum, limits, xfer, plist>>

\* wg.Wait() returns once every goroutine ran its wg.Done()
Main_Wait ==
    /\ procs.main = "waiting"
    /\ \A i \in Openers : Over(i)
    /\ procs' = [procs EXCEPT !.main = "joined"]
    /\ op' = "wg.Wait"
    /\ inp' = [by |-> 0]
    /\ ret' = <<>>
    /\ calls' = NoCalls
    /\ UNCHANGED <<space, sel, nops, types, walk, enum, limits, xfer, plist>>

\* fid.Close(): File.Flush, then h5f.Close; the first error is returned
File_Close ==
    /\ procs.main = "joined"
    /\ \E flushed \in {-1, 0}, closed \in {-1, 0} :
        LET flush == Status(flushed, <<"flushing file">>, <<>>)
            close == Status(closed, <<"closing fileid=", "%", "v">>, <<(<<"id">>)>>)
        IN  /\ procs' = [procs EXCEPT !.main = "closed",
                                      !.handles = IF flushed = 0 /\ closed = 0
                                                  THEN @ \ {procs.fid} ELSE @]
            /\ op' = "File.Close"
            /\ inp' = [by |-> 0]
            /\ ret' = Returned(0, IF flush # NilErr THEN Errorf(<<"Cannot flush">>)
                                  ELSE IF close # NilErr THEN Errorf(<<"Error closing file">>)
                                  ELSE NilErr)
            /\ calls' = IF flushed = 0
                        THEN <<[fn |-> "H5Fflush", result |-> 0],
                               [fn |-> "H5Fclose", result |-> closed]>>
                        ELSE <<[fn |-> "H5Fflush", result |-> -1]>>
            /\ UNCHANGED <<space, sel, nops, types, walk, enum, limits, xfer, plist>>

NextShared ==
    \/ Main_Create \/ Main_Go \/ Open_Call \/ Open_Return
    \/ Close_Call \/ Close_Return \/ Main_Wait \/ File_Close

SpecShared == Init /\ [][NextShared]_vars

\* ---- claims about concurrent callers

\* C19: the engine calls of the goroutines are serialized, no two of them are
\* in progress at the same time, and when the creator closes its handle every
\* goroutine has opened and closed the file without an error, but for the
\* calls the engine failed for a reason of its own
C19_EngineCallsSerialized ==
    /\ Cardinality({i \in Openers : InCall(i)}) <= 1
    /\ procs.main # "crashed"
    /\ procs.main \in {"joined", "closed"} =>
          \A i \in Openers : Over(i) /\ ~procs.g[i].raced


\* ---- the derivation of declared types that refer to themselves

\* what reflect shows of a type: a declared type shows its struct
Resolve(T) == IF T.kind = "named" THEN Declared(T.name) ELSE T

\* the declared type a value handed to Parse is made of: Node for a Node, a
\* *Node or a []Node
RECURSIVE RootName(_)
RootName(T) ==
    CASE T.kind = "named" -> T.name
      [] T.kind \in {"ptr", "slice", "array"} -> RootName(T.elem)
      [] OTHER -> ""

\* does type T reach the declared type `name` through pointers, slices, arrays
RECURSIVE Mentions(_, _)
Mentions(T, name) ==
    CASE T.kind = "named" -> T.name = name
      [] T.kind \in {"ptr", "slice", "array"} -> Mentions(T.elem, name)
      [] OTHER -> FALSE

\* the declared types the fields of `name` refer to
RefsOf(name) ==
    {m \in DeclaredNames :
        \E k \in 1..Len(Declared(name).fields) : Mentions(Declared(name).fields[k].type, m)}

\* the declared types reached from those of S in at most k steps of the graph
RECURSIVE ReachedFrom(_, _)
ReachedFrom(S, k) ==
    IF k = 0 THEN S
    ELSE ReachedFrom(S \cup UNION {RefsOf(m) : m \in S}, k - 1)

\* the reference graph below `name` holds no cycle
Acyclic(name) ==
    \A m \in ReachedFrom({name}, Cardinality(DeclaredNames)) :
        m \notin ReachedFrom(RefsOf(m), Cardinality(DeclaredNames))

\* the fields of `name` that refer to `name` through a pointer or a slice and
\* are not tagged hdf:"ignore"
SelfRefFields(name) ==
    {k \in 1..Len(Declared(name).fields) :
        LET fld == Declared(name).fields[k]
        IN  /\ fld.hdf # "ignore"
            /\ fld.type.kind \in {"ptr", "slice"}
            /\ Mentions(fld.type, name)}

\* every pointer the derivation entered was dereferenced: parse went on with
\* the pointed-to type, no engine call in between
PointersDereferenced ==
    \A i \in 1..Len(walk) :
        walk[i].type.kind = "ptr" =>
            /\ i < Len(walk)
            /\ walk[i + 1].type = Resolve(walk[i].type.elem)
            /\ walk[i + 1].calls = walk[i].calls

\* the derivation of `name` went into its field k: the walk enters the struct
\* and later the type of the field
WentInto(name, k) ==
    \E i \in 1..Len(walk) : \E j \in (i + 1)..Len(walk) :
        /\ walk[i].type = Declared(name)
        /\ walk[j].type = Declared(name).fields[k].type

\* C20 as stated: pointers are dereferenced; the derivation of a type with an
\* acyclic reference graph ends; the derivation of a record type that refers
\* to itself through a pointer or slice in a field not ignored never ends
C20_SelfReferenceNeverEnds ==
    (op = "Parse" /\ RootName(inp.obj.type) # "") =>
        /\ PointersDereferenced
        /\ Acyclic(RootName(inp.obj.type)) => ret # Unbounded
        /\ SelfRefFields(RootName(inp.obj.type)) # {} => ret = Unbounded

\* C20 amended: pointers are dereferenced; the derivation of a type with an
\* acyclic reference graph ends; the derivation of a record type never ends
\* once it went into a field that refers to the type through a pointer or
\* slice, is not ignored and carries no hdftype tag, no engine call failing
C20_ReachedSelfReferenceNeverEnds ==
    (op = "Parse" /\ RootName(inp.obj.type) # "") =>
        LET name == RootName(inp.obj.type)
        IN  /\ PointersDereferenced
            /\ Acyclic(name) => ret # Unbounded
            /\ \A k \in SelfRefFields(name) :
                  (/\ Declared(name).fields[k].hdftype = ""
                   /\ WentInto(name, k)
                   /\ \A c \in 1..Len(calls) : calls[c].result >= 0)
                  => ret = Unbounded

\* Parse of a *Node went past Val into Next and never came back
C20_Witness ==
    /\ op = "Parse"
    /\ inp.obj.type = PtrTo(TypeNamed("Node"))
    /\ WentInto("Node", 2)
    /\ walk[1].type.kind = "ptr"
    /\ Len(calls) > 0
    /\ ret = Unbounded


\* ---- the layout of the compounds Parse builds

\* the bytes of the compound an H5Tinsert call of the log writes into
CompoundSize(id) ==
    LET made == {i \in 1..Len(calls) : calls[i].fn = "H5Tcreate" /\ calls[i].result = id}
    IN  IF made = {} THEN 0 ELSE calls[CHOOSE i \in made : TRUE].size

\* C21: every field Struct hands to the engine lies within its compound:
\* 0 <= offset and offset + size of the field's datatype <= size of the compound
C21_FieldsLieWithinCompound ==
    op = "Parse" =>
        \A i \in 1..Len(calls) :
            calls[i].fn = "H5Tinsert" =>
                /\ 0 <= calls[i].offset
                /\ calls[i].offset + calls[i].bytes <= CompoundSize(calls[i].id)


\* in descriptor d, and in every descriptor it holds, the names of the fields
\* of a compound are pairwise distinct
RECURSIVE DistinctNames(_)
DistinctNames(d) ==
    CASE d.class = "compound" ->
            /\ \A i \in 1..Len(d.fields) : \A j \in 1..Len(d.fields) :
                  d.fields[i].name = d.fields[j].name => i = j
            /\ \A i \in 1..Len(d.fields) : DistinctNames(d.fields[i].type)
      [] d.class \in {"array", "vlen"} -> DistinctNames(d.elem)
      [] OTHER -> TRUE

\* the stored names the rename tags give the kept fields of struct T collide
TagsCollide(T) ==
    T.kind = "struct" /\
    \E i \in 1..Len(T.fields) : \E j \in 1..Len(T.fields) :
        /\ i # j
        /\ ~Ignored(T.fields[i]) /\ ~Ignored(T.fields[j])
        /\ FieldName(T.fields[i]) = FieldName(T.fields[j])

Makers == {"H5Tcopy", "H5Tcreate", "H5Tarray_create2", "H5Tvlen_create", "H5Topen"}

\* the handles the calls of the last operation handed out
HandedOut == {calls[i].result : i \in {j \in 1..Len(calls) : calls[j].fn \in Makers}} \ {-1}

\* how many times the last operation called H5Tclose on handle h
ClosesOf(h) == Cardinality({i \in 1..Len(calls) : calls[i].fn = "H5Tclose" /\ calls[i].id = h})

\* C23: when Parse returns, every datatype handed out during the call has been
\* closed exactly once, but for the one returned with a nil error, which has
\* not been closed
C23_TransientHandlesClosedOnce ==
    (op = "Parse" /\ ~ret.panic) =>
        \A h \in HandedOut :
            IF ret.err = NilErr /\ h = ret.id THEN ClosesOf(h) = 0 ELSE ClosesOf(h) = 1


\* ---- the two phases of Encode

\* C24: Encode of a datatype or a dataspace calls the engine twice, in order:
\* a size query with a nil buffer, then a fill with a buffer as long as the
\* size the query returned; when the query fails there is no fill and Encode
\* returns nil and the error
C24_EncodeIsTwoPhase ==
    op \in {"h5t.Encode", "h5s.Encode"} =>
        /\ ~ret.panic
        /\ Len(calls) >= 1
        /\ calls[1].buf = NilSlice
        /\ IF calls[1].status < 0
           THEN Len(calls) = 1 /\ ret.bin = NilSlice /\ ret.err # NilErr
           ELSE /\ Len(calls) = 2
                /\ calls[2].fn = calls[1].fn
                /\ calls[2].id = calls[1].id
                /\ calls[2].buf # NilSlice
                /\ Len(calls[2].buf.v) = calls[1].size
                /\ Len(ret.bin.v) = calls[1].size

\* a dataspace was encoded: the query returned a size and the fill got as much
C24_Witness ==
    /\ op = "h5s.Encode"
    /\ Len(calls) = 2
    /\ calls[1].status >= 0
    /\ calls[1].size > 0
    /\ calls[2].status >= 0
    /\ ret.err = NilErr
    /\ ret.bin.v = EncodeSpace(inp.x)


\* ---- File.Close after a failed flush

\* the engine calls of the last operation that went to fn
CallsTo(fn) == {i \in 1..Len(calls) : calls[i].fn = fn}

\* C25: when File.Close has returned, with or without an error, the failed
\* flush included, H5Fclose has been issued exactly once on the handle and a
\* failure of the flush or of the close was reported to the caller
C25_CloseAlwaysReleases ==
    op = "File.Close" =>
        /\ Cardinality(CallsTo("H5Fclose")) = 1
        /\ (\E i \in 1..Len(calls) : calls[i].result < 0) => ret.err # NilErr


\* ---- the limits the setters can reach

\* C26: in every state reached from the initial limits by calls of Regular,
\* Array and Block with any arguments, the per-list limit of each kind of
\* list is at most its global limit
C26_ListWithinGlobal ==
    /\ limits.Reg_list <= limits.Reg_global
    /\ limits.Arr_list <= limits.Arr_global
    /\ limits.Blk_list <= limits.Blk_global

\* the block setter refused a per-list limit above the global one after the
\* limits had been changed from their initial value
C26_Witness ==
    /\ op = "Block"
    /\ inp.list > inp.global
    /\ ret.ok = FALSE
    /\ limits # Limits
    /\ limits = inp.before


(***************************************************************************)
(* Transfers (src/h5d/h5d.go, src/h5d/buffer.go).  Dataset.Write and       *)
(* Dataset.Read ask the buffer for its datatype and its shape, defer the   *)
(* Close of both, and hand them to H5Dwrite or H5Dread.  A buffer is what  *)
(* its Type() and Shape() do: the wrapped pointer of h5d.Wrap returns the  *)
(* datatype it holds and a new scalar dataspace; the Int32 of the tests    *)
(* returns a new h5t.Int32() and a new simple dataspace; a buffer that     *)
(* embeds h5d.Flat returns h5s.ALL for its shape.                          *)
(***************************************************************************)

\* the handles the engine hands out during a run
MaxIds == 6

\* ALL Dataspace = C.H5S_ALL
ALL == 0

\* h5d.Wrap(dtype, ptr)
Wrap(dtype) == [type |-> "held", dtype |-> dtype, shape |-> "scalar"]

\* the Int32 of the tests, and the same with h5d.Flat for its shape
UserBuffers ==
    {[type |-> "made", dtype |-> 0, shape |-> "simple"],
     [type |-> "made", dtype |-> 0, shape |-> "flat"]}

\* data.Type(): wptr.Type returns w.dtype; Int32.Type returns h5t.Int32(),
\* which copies NINT and sets its size and sign: the copy failed ("copy"),
\* or a setter failed and left the copy open ("set"), or the type is made
Type(data, X, how) ==
    IF data.type = "held"
    THEN [X |-> X, id |-> data.dtype, err |-> NilErr, log |-> <<>>]
    ELSE LET id == IF how = "copy" THEN -1 ELSE X.next
             made == [X EXCEPT !.types = IF how = "copy" THEN @ ELSE @ \cup {id},
                               !.next = IF how = "copy" THEN @ ELSE @ + 1]
         IN  [X |-> made,
              id |-> IF how = "ok" THEN id ELSE -1,
              err |-> IF how = "copy" THEN Status(-1, Ctx("copying datatype"), <<>>)
                      ELSE IF how = "set" THEN Status(-1, Ctx("setting size"), <<>>)
                      ELSE NilErr,
              log |-> <<[fn |-> "h5t.Int32", id |-> id, result |-> IF how = "ok" THEN id ELSE -1]>>]

\* data.Shape(): wptr.Shape is h5s.CreateScalar(), Int32.Shape is
\* h5s.CreateSimple, Flat.Shape is h5s.ALL with a nil error
Shape(data, X, ok) ==
    IF data.shape = "flat"
    THEN [X |-> X, id |-> ALL, err |-> NilErr, log |-> <<>>]
    ELSE LET id == IF ok THEN X.next ELSE -1
             fn == IF data.shape = "scalar" THEN "H5Screate" ELSE "H5Screate_simple"
             ctx == IF data.shape = "scalar" THEN "creating scalar dataspace"
                    ELSE "creating simple dataspace"
         IN  [X |-> [X EXCEPT !.spaces = IF ok THEN @ \cup {id} ELSE @,
                              !.next = IF ok THEN @ + 1 ELSE @],
              id |-> id,
              err |-> Status(id, Ctx(ctx), <<>>),
              log |-> <<[fn |-> fn, id |-> id, result |-> id]>>]

\* Datatype.Close, its error dropped by the defer: the engine releases an
\* open datatype and refuses any other identifier
Deferred_TClose(X, T) ==
    [X |-> [X EXCEPT !.types = @ \ {T}],
     log |-> <<[fn |-> "H5Tclose", id |-> T, result |-> IF T \in X.types THEN 0 ELSE -1]>>]

\* Dataspace.Close, its error dropped by the defer: the engine releases an
\* open dataspace and refuses any other identifier, H5S_ALL included
Deferred_SClose(X, S) ==
    [X |-> [X EXCEPT !.spaces = @ \ {S}],
     log |-> <<[fn |-> "H5Sclose", id |-> S, result |-> IF S \in X.spaces THEN 0 ELSE -1]>>]

\* the body Dataset.Write and Dataset.Read share: fn is H5Dwrite or H5Dread,
\* st the status of the transfer when the engine is given an open datatype
Transfer(fn, data, X, how, ok, st) ==
    LET t == Type(data, X, how)
    IN  IF t.err # NilErr
        THEN [X |-> t.X, err |-> t.err, log |-> t.log]
        ELSE LET s == Shape(data, t.X, ok)
             IN  IF s.err # NilErr
                 THEN LET c == Deferred_TClose(s.X, t.id)
                      IN  [X |-> c.X, err |-> s.err, log |-> t.log \o s.log \o c.log]
                 ELSE LET status == IF t.id \in s.X.types THEN st ELSE -1
                          call == [fn |-> fn, id |-> t.id, shape |-> s.id, result |-> status]
                          c1 == Deferred_SClose(s.X, s.id)
                          c2 == Deferred_TClose(c1.X, t.id)
                          ctx == IF fn = "H5Dwrite" THEN "writing data to dataset"
                                 ELSE "reading data from dataset"
                      IN  [X |-> c2.X,
                           err |-> Status(status, Ctx(ctx), <<>>),
                           log |-> t.log \o s.log \o <<call>> \o c1.log \o c2.log]

\* the buffers a caller can pass: the ones it wrapped, and its own
Buffers == {Wrap(d) : d \in xfer.wrapped} \cup UserBuffers

\* the caller gets a datatype: h5t.Parse or h5t.Open gave it a new handle
Type_Open ==
    /\ xfer.next <= MaxIds
    /\ xfer' = [xfer EXCEPT !.types = @ \cup {xfer.next}, !.next = @ + 1]
    /\ op' = "h5t.Open"
    /\ inp' = [before |-> xfer]
    /\ ret' = Returned(xfer.next, NilErr)
    /\ calls' = <<[fn |-> "H5Topen", id |-> xfer.next, result |-> xfer.next]>>
    /\ UNCHANGED <<space, sel, nops, types, walk, enum, limits, procs, plist>>

\* h5d.Wrap(dtype, ptr) of a datatype the caller holds
h5d_Wrap ==
    \E dtype \in xfer.types \ xfer.wrapped :
        /\ xfer' = [xfer EXCEPT !.wrapped = @ \cup {dtype}]
        /\ op' = "h5d.Wrap"
        /\ inp' = [dtype |-> dtype, before |-> xfer]
        /\ ret' = [buf |-> Wrap(dtype)]
        /\ calls' = NoCalls
        /\ UNCHANGED <<space, sel, nops, types, walk, enum, limits, procs, plist>>

\* d.Write(data, h5s.ALL, xfr)
Dataset_Write ==
    \E data \in Buffers, how \in {"ok", "copy", "set"}, ok \in BOOLEAN, st \in {-1, 0} :
        LET r == Transfer("H5Dwrite", data, xfer, how, ok, st)
        IN  /\ xfer.next + 2 <= MaxIds + 1
            /\ xfer' = r.X
            /\ op' = "Dataset.Write"
            /\ inp' = [data |-> data, selection |-> ALL, before |-> xfer]
            /\ ret' = Returned(0, r.err)
            /\ calls' = r.log
            /\ UNCHANGED <<space, sel, nops, types, walk, enum, limits, procs, plist>>

\* d.Read(data, h5s.ALL, xfr)
Dataset_Read ==
    \E data \in Buffers, how \in {"ok", "copy", "set"}, ok \in BOOLEAN, st \in {-1, 0} :
        LET r == Transfer("H5Dread", data, xfer, how, ok, st)
        IN  /\ xfer.next + 2 <= MaxIds + 1
            /\ xfer' = r.X
            /\ op' = "Dataset.Read"
            /\ inp' = [data |-> data, selection |-> ALL, before |-> xfer]
            /\ ret' = Returned(0, r.err)
            /\ calls' = r.log
            /\ UNCHANGED <<space, sel, nops, types, walk, enum, limits, procs, plist>>

NextTransfer == Type_Open \/ h5d_Wrap \/ Dataset_Write \/ Dataset_Read

SpecTransfer == Init /\ [][NextTransfer]_vars

\* C27: Dataset.Write and Dataset.Read leave open every handle that was open
\* before the call, the datatype of a wrapped buffer included, and do not
\* close h5s.ALL, so that a wrapped buffer serves a second transfer
C27_TransferKeepsHandles ==
    op \in {"Dataset.Write", "Dataset.Read"} =>
        /\ inp.before.types \subseteq xfer.types
        /\ inp.before.spaces \subseteq xfer.spaces
        /\ \A i \in 1..Len(calls) :
              (calls[i].fn = "H5Sclose" /\ calls[i].id = ALL) => calls[i].result < 0
        /\ (inp.data.type = "held" /\ inp.data.dtype \in inp.before.types)
              => inp.data.dtype \in xfer.types


\* ---- abnormal ends of Parse

\* C28: Parse never ends abnormally: for every value, a struct with a field
\* of interface type and the nil value included, it returns a descriptor
\* with a nil error or -1 with an error, and does not panic
C28_ParseNeverPanics ==
    op = "Parse" =>
        /\ ~ret.panic
        /\ \/ ret.err = NilErr /\ ret.id \in DOMAIN types
           \/ ret.err # NilErr /\ ret.id = -1


(***************************************************************************)
(* Points.Ref with lists of points of any lengths (src/h5s/h5s.go): the    *)
(* buffer is sized from the first point and filled from all of them.       *)
(***************************************************************************)

\* the longest point and the longest list handed to Points.Ref
MaxPointLen == 3
MaxRagged == 2

\* points of zero to MaxPointLen coordinates, inside the grid
RaggedPoints == SeqsUpTo({1, 4}, MaxPointLen)

RaggedLists == {Slice(c) : c \in SeqsUpTo(RaggedPoints, MaxRagged)}

\* pt.Ref(op, coords) as the first selection on the dataspace
Points_RefRagged ==
    /\ nops = 0
    /\ \E o \in {"SET", "APPEND"}, coords \in RaggedLists : PointsRef("Points.Ref", o, coords)

NextPoints == CreateGrid \/ Points_RefRagged

SpecPoints == Init /\ [][NextPoints]_vars

\* C29: Points.Ref with n >= 1 points hands the engine the point count n and
\* a flat buffer of n*R entries, R the length of the first point, in which
\* entry k*R + j is coordinate j of point k, whatever the lengths of the
\* points
C29_FlatBufferHoldsEveryPoint ==
    (op = "Points.Ref" /\ Len(inp.coords.v) >= 1) =>
        LET pts == inp.coords.v
            n == Len(pts)
            R == Len(pts[1])
        IN  /\ Len(calls) = 1
            /\ calls[1].n = n
            /\ Len(calls[1].buf) = n * R
            /\ \A k \in 1..n : \A j \in 1..Len(pts[k]) :
                  /\ (k - 1) * R + j <= Len(calls[1].buf)
                  /\ calls[1].buf[(k - 1) * R + j] = pts[k][j]


(***************************************************************************)
(* The chunk of a dataset creation property list (src/h5d/h5d.go).         *)
(* H5Pget_chunk(plist, max, dims) writes at most max dimensions into dims  *)
(* and returns the rank of the chunk, or a negative value when the layout  *)
(* is not chunked or the call fails.                                       *)
(***************************************************************************)

\* the largest chunk rank handed to SetChunk, below the engine's limit of 32
MaxChunkRank == 17

\* the chunk dimensions handed to SetChunk: ranks 0 to MaxChunkRank, and one
\* chunk with a dimension of no extent
ChunkDims ==
    {[i \in 1..r |-> b + i] : r \in 0..MaxChunkRank, b \in 1..2} \cup {<<3, 0>>}

\* does H5Pset_chunk take the dimensions
H5Pset_chunk_valid(dims) ==
    /\ Len(dims) >= 1
    /\ \A i \in 1..Len(dims) : dims[i] > 0

\* self.SetChunk(dims); &cdims[0] panics when dims is empty
Crt_SetChunk ==
    \E dims \in ChunkDims, st \in {-1, 0} :
        /\ st >= 0 => H5Pset_chunk_valid(dims)
        /\ op' = "SetChunk"
        /\ inp' = [dims |-> dims, before |-> plist]
        /\ IF Len(dims) = 0
           THEN /\ ret' = [res |-> NilSlice, err |-> NilErr, panic |-> TRUE]
                /\ calls' = NoCalls
                /\ UNCHANGED plist
           ELSE /\ ret' = [res |-> NilSlice, panic |-> FALSE,
                           err |-> Status(st, Ctx("setting dataset chunk size"), <<>>)]
                /\ calls' = <<[fn |-> "H5Pset_chunk", max |-> Len(dims), result |-> st]>>
                /\ plist' = IF st >= 0 THEN [chunked |-> TRUE, dims |-> dims] ELSE plist
        /\ UNCHANGED <<space, sel, nops, types, walk, enum, limits, procs, xfer>>

\* H5Pget_chunk(plist, n, &out[0]) as query number k: the rank, or -1 when the
\* layout is not chunked or the query is the one that fails
H5Pget_chunk(P, n, out, k, fail) ==
    LET ok == P.chunked /\ k # fail
        r == Len(P.dims)
    IN  [result |-> IF ok THEN r ELSE -1,
         out |-> IF ok
                 THEN [i \in 1..Len(out) |-> IF i <= r /\ i <= n THEN P.dims[i] ELSE out[i]]
                 ELSE out]

\* the loop of GetChunk from its k-th query on, with the buffer out and the
\* size n it asks for
RECURSIVE GetChunkFrom(_, _, _, _, _, _)
GetChunkFrom(P, n, out, k, fail, log) ==
    LET q == H5Pget_chunk(P, n, out, k, fail)
        actual == q.result
        err == Status(actual, Ctx("getting dataset chunk size"), <<>>)
        logged == Append(log, [fn |-> "H5Pget_chunk", max |-> n, result |-> actual])
        grown == q.out \o Zeros(n)
    IN  IF err # NilErr
        THEN [res |-> NilSlice, err |-> err, panic |-> FALSE, log |-> logged]
        ELSE IF actual >= 2 * n
        THEN GetChunkFrom(P, 2 * n, grown, k + 1, fail, logged)
        ELSE [res |-> Slice(SubSeq(grown, 1, actual)), err |-> NilErr, panic |-> FALSE,
              log |-> logged]

\* self.GetChunk(): n := 8; actual := n; out := make([]C.hsize_t, n)
GetChunk(P, fail) == GetChunkFrom(P, 8, Zeros(8), 1, fail, <<>>)

\* self.GetChunk(), one of its queries failing or none
Crt_GetChunk ==
    \E fail \in 0..3 :
        LET r == GetChunk(plist, fail)
        IN  /\ op' = "GetChunk"
            /\ inp' = [fail |-> fail, before |-> plist]
            /\ ret' = [res |-> r.res, err |-> r.err, panic |-> r.panic]
            /\ calls' = r.log
            /\ UNCHANGED <<space, sel, nops, types, walk, enum, limits, procs, xfer, plist>>

NextChunk == Crt_SetChunk \/ Crt_GetChunk

SpecChunk == Init /\ [][NextChunk]_vars

\* C30: GetChunk ends for every chunk rank and, when its queries succeed,
\* returns the chunk dimensions of the property list, as many as the rank and
\* in order, for ranks of 8 and more too, where it asks again with a larger
\* buffer; when a query fails it returns nil and an error
C30_GetChunkReturnsEveryDimension ==
    op = "GetChunk" =>
        IF \E i \in 1..Len(calls) : calls[i].result < 0
        THEN ret.res = NilSlice /\ ret.err # NilErr
        ELSE /\ ret.err = NilErr
             /\ ret.res = Slice(plist.dims)
             /\ (Len(plist.dims) >= 16 => Len(calls) >= 2)

====
